---- MODULE Spec2Model ----
(***************************************************************************)
(* A model of orange-juzipi/notify: the release ledger (util.StateStore),  *)
(* the single-repository lookup (github.Client.GetLatestRelease) and the   *)
(* concurrent fetch orchestrator (github.CheckForNewReleases).             *)
(*                                                                         *)
(* Goroutines are modelled as threads with a program counter; a mutex is a *)
(* variable holding its owner.  A critical section that only reads (the    *)
(* RLock sections of GetLatestTag and save) is one step guarded by "no     *)
(* writer holds mu"; CheckAndUpdateIfNew's write section is split at every *)
(* statement that touches the map or the file.                             *)
(***************************************************************************)
EXTENDS Integers, Sequences, FiniteSets, TLC

(***************************************************************************)
(* Bounds of the model.                                                    *)
(***************************************************************************)
\* goroutines that call the ledger concurrently
NumProcs == 2
\* ledger calls started in one behaviour of SpecLedger
MaxCalls == 3
\* ticks of the wall clock (time.Now) in one behaviour
MaxClock == 1
\* process starts on the same ledger file (NewStateStore while one exists)
MaxReopens == 1
\* repositories in the de-duplicated list of CheckForNewReleases
NumRepos == 4
\* CheckForNewReleases calls (runOnce) on the same ledger file
MaxRuns == 2
\* part_001:270 concurrencyLimit := 10 and part_001:273 batchSize := 100,
\* scaled down with the repository count so that a batch fills the semaphore
\* and the list spans two batches
concurrencyLimit == 2
batchSize == 3
\* goroutines calling GetLatestRelease on one client at the same time
NumLookups == 2
\* releases handed to NotifyAll when the network may do anything
NumReleases == 2
\* releases handed to NotifyAll on a fast network: two full batches and one more
LongRun == 21
\* releases handed to NotifyAll on a slow network that delivers every message
SlowRun == 7
\* Send calls made on the notifiers directly, and pauses between them
MaxSends == 4
MaxElapses == 2
\* FileLock objects on the lock file, and calls made on them
NumLocks == 2
MaxLockCalls == 4

Procs == 1..NumProcs

\* Repository identities used by the callers; GitHub owner and repository
\* names hold no "/".
Idents == {[Owner |-> "a", Name |-> "x"], [Owner |-> "b", Name |-> "y"]}

\* Release tags; the empty string is a value the API accepts.
Tags == {"", "v1", "v2"}

VARIABLES
    states,      \* StateStore.states: Go map key -> ReleaseState
    mu,          \* StateStore.mu: 0 when free, else the goroutine holding Lock
    disk,        \* the file at storePath: [exists, data]
    now,         \* time.Now(), in ticks
    pc,          \* per goroutine: where it is
    arg,         \* per goroutine: (owner, repo, tag) of the call it runs
    cur,         \* per goroutine: (currentState, exists) read at store.go:136
    data,        \* per goroutine: bytes produced by MarshalIndent, not yet written
    ret,         \* per goroutine: what its last call returned, (isNew, err)
    pre,         \* per goroutine: the ledger as its call found it, and whether its write failed
    calls,       \* number of ledger calls started
    reopens,     \* number of NewStateStore calls on the existing path
    seq,         \* progress of the calls along TestTags: [on, n, res]
    committed,   \* key -> tag of the last commit whose file write succeeded
    writeFailed, \* some os.WriteFile of the ledger has failed
    cfgDays,     \* cfg.GitHub.CheckDays
    sources,     \* the repository lists the run gathers: configured, user, starred, organisations
    repoConfigs, \* per lookup goroutine: the repository it is given
    run,         \* number of CheckForNewReleases calls started
    dpc,         \* where the goroutine running CheckForNewReleases is
    bi, bj, bend,    \* its loop variables i, j, end (part_001:307-319)
    semaphore,   \* buffered channel of the current batch: elements queued
    wg,          \* sync.WaitGroup counter
    fetchMu,     \* mu of CheckForNewReleases: 0 when free, else the holder
    results, noReleaseCount, errorCount, rateLimitHit,  \* part_001:257-261
    wpc,         \* per lookup goroutine: where it is
    wrel,        \* per lookup goroutine: the API's answer
    wres,        \* per lookup goroutine: what GetLatestRelease returned
    wdata,       \* per lookup goroutine: bytes marshalled by save, not yet written
    reported,    \* per repository: runs whose returned list held its release
    undelivered, \* repositories whose reported release reached no channel
    out,         \* what the last CheckForNewReleases call returned
    added,       \* repositories whose lookup appended a release in this call
    clk,         \* wall clock of the notification side, in seconds
    cfg,         \* cfg.Notifications: per channel, enabled and with or without credentials
    notifiers,   \* m.notifiers: the enabled channels, in the order they were added
    nrel,        \* len(releases) of the NotifyAll call
    net,         \* what the webhooks may answer, and how long a request may take
    tmplOK,      \* the configured template executes without error
    mlim,        \* m.limiter
    nlim,        \* per channel: n.limiter
    cooldown,    \* per channel: n.cooldown
    nmu,         \* per channel: n.mu, 1 while held
    npc,         \* where the goroutine running NotifyAll or Send is
    caller,      \* who called Send: "manager" (sendBatch) or "direct"
    ni, nend,    \* NotifyAll's i and end
    rel, chan,   \* sendBatch's position: index of the release and of the notifier
    deadline,    \* deadline of batchCtx
    wake,        \* end of the limiter wait in progress
    errs,        \* the errors NotifyAll has collected
    serr,        \* the error Send returns (<<>> for nil)
    dstat,       \* per release and channel: what became of the delivery
    limited,     \* channels with a delivery error classified as rate limit in this run
    sentAt,      \* per channel: times of its transport calls
    entered,     \* per channel: time and duration of the last setCooldown
    lastCheck,   \* the last canSendMessage: channel, time, result, remaining
    lastSend,    \* the last Send that reached the transport: channel, answer, time of return
    sends, elapses,  \* direct Send calls and pauses so far
    holders,     \* the FileLock objects whose open file holds the exclusive lock on the lock file
    file,        \* per FileLock object: fl.file ("nil", an open file, or a closed one)
    lastLock,    \* the last FileLock call: object, method, results
    lcalls,      \* number of FileLock calls made
    refused      \* pairs (o, h): Lock or TryLock on o found the lock held by h

ledgerVars == <<states, mu, disk, now>>
procVars == <<pc, arg, cur, data, ret>>
ghostVars == <<pre, calls, reopens, seq, committed, writeFailed>>
fetchVars == <<cfgDays, sources, repoConfigs, run, dpc, bi, bj, bend, semaphore, wg, fetchMu,
               results, noReleaseCount, errorCount, rateLimitHit,
               wpc, wrel, wres, wdata, reported, undelivered, out, added>>
notifyVars == <<clk, cfg, notifiers, nrel, net, tmplOK, mlim, nlim, cooldown, nmu, npc, caller,
                ni, nend, rel, chan, deadline, wake, errs, serr, dstat, limited,
                sentAt, entered, lastCheck, lastSend, sends, elapses>>
lockVars == <<holders, file, lastLock, lcalls, refused>>
coreVars == <<ledgerVars, procVars, ghostVars, fetchVars, lockVars>>
vars == <<ledgerVars, procVars, ghostVars, fetchVars, notifyVars, lockVars>>

(***************************************************************************)
(* util.StateStore: pure parts.                                            *)
(***************************************************************************)
\* store.go:86 getKey: fmt.Sprintf("%s/%s", owner, repo)
getKey(owner, repo) == owner \o "/" \o repo

Keys == {getKey(i.Owner, i.Name) : i \in Idents}

\* store.go:13 ReleaseState
ReleaseState(owner, repo, tag, t) ==
    [Owner |-> owner, Repository |-> repo, LatestTag |-> tag, LastNotified |-> t]

\* make(map[string]ReleaseState)
EmptyMap == [k \in {} |-> ReleaseState("", "", "", 0)]

\* m[key] = v on a Go map
MapSet(m, key, v) == [k \in (DOMAIN m) \cup {key} |-> IF k = key THEN v ELSE m[k]]

\* json.MarshalIndent(s.states): one member per map key, the struct's fields
\* under their json tags.  No ReleaseState built from strings and time.Now()
\* makes it fail, so err is nil.
MarshalIndent(m) ==
    [err |-> FALSE,
     data |-> {[key |-> k,
                value |-> [owner |-> m[k].Owner,
                           repository |-> m[k].Repository,
                           latest_tag |-> m[k].LatestTag,
                           last_notified |-> m[k].LastNotified]] : k \in DOMAIN m}]

\* json.Unmarshal(data, &s.states): members of the object are decoded into the
\* map, entries already in the map and absent from the object stay.
Unmarshal(bytes, m) ==
    [k \in (DOMAIN m) \cup {e.key : e \in bytes} |->
        IF \E e \in bytes : e.key = k
        THEN LET e == CHOOSE e \in bytes : e.key = k
             IN ReleaseState(e.value.owner, e.value.repository,
                             e.value.latest_tag, e.value.last_notified)
        ELSE m[k]]

NoFile == [exists |-> FALSE, data |-> {}]
File(bytes) == [exists |-> TRUE, data |-> bytes]

\* a constructor that never loads the file
NewStateStoreNoLoad(d) == EmptyMap

\* store.go:28 NewStateStore with store.go:60 load: an empty map, filled from
\* the file when os.Stat finds it.
NewStateStore(d) == IF d.exists THEN Unmarshal(d.data, EmptyMap) ELSE EmptyMap

\* store.go:91 GetLatestTag on map m
GetLatestTagIn(m, owner, repo) ==
    LET key == getKey(owner, repo)
    IN IF key \in DOMAIN m THEN m[key].LatestTag ELSE ""

\* store.go:120 IsNewRelease on map m
IsNewReleaseIn(m, owner, repo, tag) ==
    LET currentTag == GetLatestTagIn(m, owner, repo)
    IN currentTag = "" \/ currentTag # tag

\* the same test without the exists flag of the map lookup
NotNewByTagOnly(c, tag) == c.state.LatestTag = tag

\* store.go:136-141: the test CheckAndUpdateIfNew makes under the lock
NotNew(c, tag) == c.exists /\ c.state.LatestTag = tag

(***************************************************************************)
(* Initial state: a fresh process, no ledger file yet.                     *)
(***************************************************************************)
NoArg == [owner |-> "", repo |-> "", tag |-> ""]
NoCur == [exists |-> FALSE, state |-> ReleaseState("", "", "", 0)]
NoRet == [isNew |-> FALSE, err |-> FALSE]
NoPre == [states |-> EmptyMap, disk |-> NoFile, ioFailed |-> FALSE]
Found == [states |-> states, disk |-> disk, ioFailed |-> FALSE]

\* ---------------------------------------------------------------------------
\* Package github: the release lookup (Client.GetLatestRelease) and the
\* orchestrator (CheckForNewReleases) with its lookup goroutines.

Workers == 1..NumRepos

\* the de-duplicated repository list (repoMap keeps one entry per owner/name)
Repo(j) == [Owner |-> "o", Name |-> "r" \o ToString(j)]

\* the tag the API reports as latest; it does not change during a behaviour
UpstreamTag == "v1"

\* days between a release's publish time and the lookup
Ages == {1, 5, 9}

\* the window GetLatestRelease applies: AddDate(0, 0, -7)
sevenDays == 7

\* config.DefaultCheckDays, the value of cfg.GitHub.CheckDays when none is set
DefaultCheckDays == 3

\* values of cfg.GitHub.CheckDays: the default, or one given by --days
CheckDaysChoices == {DefaultCheckDays, sevenDays}

\* error texts are sequences of phrases; strings.Contains looks for a phrase
RateLimitError == <<"403", "API", "rate limit exceeded">>
ServerError == <<"500", "Internal Server Error">>
Errorf(prefix, e) == <<prefix>> \o e
Contains(s, phrase) == \E n \in 1..Len(s) : s[n] = phrase

\* what Repositories.GetLatestRelease can answer
NoAnswer == [kind |-> "none", age |-> 0, err |-> <<>>]
Answers ==
    {[kind |-> "notfound", age |-> 0, err |-> <<"404", "Not Found">>],
     [kind |-> "error", age |-> 0, err |-> RateLimitError],
     [kind |-> "error", age |-> 0, err |-> ServerError]}
    \cup {[kind |-> "release", age |-> a, err |-> <<>>] : a \in Ages}

\* publishedTime.Before(sevenDaysAgo)
BeforeSevenDaysAgo(age) == age > sevenDays

\* the pair GetLatestRelease returns: (*ReleaseInfo, error)
NoResult == [release |-> FALSE, tag |-> "", err |-> <<>>]
ReleaseInfo(tag) == [release |-> TRUE, tag |-> tag, err |-> <<>>]
Failure(e) == [release |-> FALSE, tag |-> "", err |-> e]

\* the pair CheckForNewReleases returns: ([]*ReleaseInfo, error)
NoReturn == [returned |-> FALSE, results |-> <<>>, err |-> FALSE]

\* no list gathered: the repositories are given as they are
NoSources == <<>>

FetchIdle ==
    /\ cfgDays = DefaultCheckDays
    /\ sources = NoSources
    /\ repoConfigs = [j \in Workers |-> Repo(j)]
    /\ run = 0
    /\ dpc = "idle"
    /\ bi = 0
    /\ bj = 0
    /\ bend = 0
    /\ semaphore = 0
    /\ wg = 0
    /\ fetchMu = 0
    /\ results = <<>>
    /\ noReleaseCount = 0
    /\ errorCount = 0
    /\ rateLimitHit = FALSE
    /\ wpc = [j \in Workers |-> "none"]
    /\ wrel = [j \in Workers |-> NoAnswer]
    /\ wres = [j \in Workers |-> NoResult]
    /\ wdata = [j \in Workers |-> {}]
    /\ reported = [j \in Workers |-> 0]
    /\ undelivered = {}
    /\ out = NoReturn
    /\ added = {}

\* ---------------------------------------------------------------------------
\* Package notifier: the manager (NotifyAll, sendBatch) and the two channel
\* notifiers (dingtalk, telegram).  Times are whole seconds.  Time passes in
\* limiter waits, in time.Sleep and in HTTP requests; every other statement
\* takes none.

Channels == {"dingtalk", "telegram"}

\* rate.NewLimiter(rate.Every(3*time.Second), 5) of the manager
managerPeriod == 3
managerBurst == 5
\* NotifyAll: batchSize, batchTimeout, the pause between batches
notifyBatchSize == 10
batchTimeout == 30
batchPause == 2
\* sendBatch: time.Sleep(5 * time.Second) after a rate-limit error
rateLimitPause == 5
\* dingtalk.New: rate.Every(3*time.Second), 5; Send: setCooldown(10 * time.Minute)
dingtalkPeriod == 3
dingtalkBurst == 5
dingtalkCooldown == 600
\* telegram.New: rate.Every(1*time.Second), 3; Send: setCooldown(1 * time.Minute)
telegramPeriod == 1
telegramBurst == 3
telegramCooldown == 60
\* http.Client{Timeout: 10 * time.Second}
httpTimeout == 10
\* README: a DingTalk bot can send at most 20 messages per minute
dingtalkPerMinute == 20
minute == 60

Period(c) == IF c = "dingtalk" THEN dingtalkPeriod ELSE telegramPeriod
Burst(c) == IF c = "dingtalk" THEN dingtalkBurst ELSE telegramBurst
\* cooldowns shorter than the time the limiter takes to fill up
CooldownShort(c) == IF c = "dingtalk" THEN dingtalkPeriod ELSE telegramPeriod
CooldownFor(c) == IF c = "dingtalk" THEN dingtalkCooldown ELSE telegramCooldown

\* rate.Limiter as a token bucket counted in seconds of credit: one token is
\* `period` seconds, the bucket holds `burst` tokens, a reservation takes one
\* token at once and may leave the level negative until time has paid for it
NewLimiter(period, burst, t) == [level |-> burst * period, last |-> t]
Credit(l, period, burst, t) ==
    LET c == l.level + (t - l.last)
    IN IF c > burst * period THEN burst * period ELSE c
Delay(l, period, burst, t) ==
    LET c == Credit(l, period, burst, t)
    IN IF c >= period THEN 0 ELSE period - c
Reserve(l, period, burst, t) == [level |-> Credit(l, period, burst, t) - period, last |-> t]
\* Reservation.Cancel: the token goes back
Restore(l, period) == [level |-> l.level + period, last |-> l.last]

\* Error texts are sequences of phrases, cut so that every text the code
\* compares with or searches for is a phrase of its own.  The Chinese texts
\* are given in English: "frequency over limit" is the errcode 88 text and
\* "rate-limit:" the manager's prefix.
ErrOverLimit == <<"frequency over limit">>
ErrTooMany == <<"too many requests">>
ErrRateLimitExceeded == <<"rate limit", "exceeded">>
ErrStatus(code) == <<"request failed, status:", ToString(code)>>
ErrPost == <<"send message failed:", "timeout">>
ErrApi(c) == <<c, "api error:", "invalid", "(code: 400)">>
ErrTemplate == <<"template:", "execute failed">>
ErrCooling(c, remaining) ==
    <<c, "message", "frequency over limit", "cooling down, remaining:", ToString(remaining)>>
ErrThrottled(c, e) == <<c, "api throttled, cooldown set:">> \o e
ErrLimiterWait == <<"limiter wait error:", "context deadline exceeded">>
ErrRateLimit(e) == <<"rate-limit:">> \o e
HasPhrase(e, phrase) == \E n \in 1..Len(e) : e[n] = phrase

\* isRateLimitError
isRateLimitError(e) ==
    \/ HasPhrase(e, "frequency over limit")
    \/ HasPhrase(e, "rate limit")
    \/ HasPhrase(e, "too many requests")

\* what a webhook can answer: delivered, HTTP 429, the provider's rate-limit
\* code in the body (errcode 88, error_code 429), or some other failure (a
\* request that fails, another status, another error code)
Outcomes == {"ok", "status429", "limitcode", "posterr", "apierr"}
Throttles == {"status429", "limitcode"}

\* sendMarkdown of dingtalk and sendMessage of telegram: the error returned
\* for an answer
sendError(c, o) ==
    IF o = "ok" THEN <<>>
    ELSE IF o = "posterr" THEN ErrPost
    ELSE IF o = "status429" THEN (IF c = "telegram" THEN ErrTooMany ELSE ErrStatus(429))
    ELSE IF o = "limitcode" THEN (IF c = "telegram" THEN ErrTooMany ELSE ErrOverLimit)
    ELSE ErrApi(c)

\* Send: the test that triggers the cooldown
triggersCooldown(c, e) ==
    IF c = "dingtalk"
    THEN e = ErrOverLimit \/ e = ErrTooMany \/ e = ErrRateLimitExceeded
    ELSE e = ErrTooMany \/ e = ErrRateLimitExceeded

NoCooldown == [active |-> FALSE, until |-> 0]
NoCheck == [channel |-> "", at |-> 0, can |-> TRUE, remaining |-> 0]
NoSend == [channel |-> "", answer |-> "", at |-> 0]
NoEntry == [set |-> FALSE, at |-> 0, duration |-> 0]
FullNet == [outcomes |-> Outcomes, latency |-> {0, httpTimeout}]

\* the FileLock objects: one per process that runs RootCmd, or per test
FileLocks == 1..NumLocks
NoLockCall == [obj |-> 0, op |-> "", ok |-> FALSE, err |-> ""]

\* no FileLock call has been made: NewFileLock leaves fl.file nil
LockIdle ==
    /\ holders = {}
    /\ file = [o \in FileLocks |-> "nil"]
    /\ lastLock = NoLockCall
    /\ lcalls = 0
    /\ refused = {}

\* before any manager exists
\* cfg.Notifications of a channel: not enabled, enabled with its credentials
\* (webhook URL; bot token and chat id), or enabled with an empty one
NoConfig == [c \in Channels |-> "off"]
ConfigOf(ns) ==
    [c \in Channels |-> IF \E n \in 1..Len(ns) : ns[n] = c THEN "ok" ELSE "off"]

NotifyIdle ==
    /\ clk = 0
    /\ cfg = NoConfig
    /\ notifiers = <<>>
    /\ nrel = 0
    /\ net = FullNet
    /\ tmplOK = TRUE
    /\ mlim = NewLimiter(managerPeriod, managerBurst, 0)
    /\ nlim = [c \in Channels |-> NewLimiter(Period(c), Burst(c), 0)]
    /\ cooldown = [c \in Channels |-> NoCooldown]
    /\ nmu = [c \in Channels |-> 0]
    /\ npc = "none"
    /\ caller = "manager"
    /\ ni = 0
    /\ nend = 0
    /\ rel = 0
    /\ chan = 0
    /\ deadline = 0
    /\ wake = 0
    /\ errs = <<>>
    /\ serr = <<>>
    /\ dstat = <<>>
    /\ limited = {}
    /\ sentAt = [c \in Channels |-> <<>>]
    /\ entered = [c \in Channels |-> NoEntry]
    /\ lastCheck = NoCheck
    /\ lastSend = NoSend
    /\ sends = 0
    /\ elapses = 0


ProcInit ==
    /\ pc = [p \in Procs |-> "idle"]
    /\ arg = [p \in Procs |-> NoArg]
    /\ cur = [p \in Procs |-> NoCur]
    /\ data = [p \in Procs |-> {}]
    /\ ret = [p \in Procs |-> NoRet]

GhostInit ==
    /\ pre = [p \in Procs |-> NoPre]
    /\ calls = 0
    /\ reopens = 0
    /\ seq = [on |-> TRUE, n |-> 0, res |-> <<>>]
    /\ committed = [k \in Keys |-> ""]
    /\ writeFailed = FALSE

Init ==
    /\ disk = NoFile
    /\ states = NewStateStore(NoFile)
    /\ mu = 0
    /\ now = 0
    /\ ProcInit
    /\ GhostInit
    /\ FetchIdle
    /\ LockIdle
    /\ NotifyIdle

(***************************************************************************)
(* The call sequence of TestCheckAndUpdateIfNew_DifferentTags              *)
(* (store_test.go:84-102): one identity, tags v1, v1, v2, each call made   *)
(* after the one before it returned.  seq follows the calls of a store     *)
(* while they are a prefix of that sequence and keeps their results.       *)
(***************************************************************************)
TestTags == <<"v1", "v1", "v2">>
TestIdent == [Owner |-> "a", Name |-> "x"]
SeqOff == [on |-> FALSE, n |-> 0, res |-> <<>>]

SeqCall(a) ==
    IF /\ seq.on
       /\ seq.n < Len(TestTags)
       /\ Len(seq.res) = seq.n
       /\ a.owner = TestIdent.Owner /\ a.repo = TestIdent.Name
       /\ a.tag = TestTags[seq.n + 1]
    THEN [seq EXCEPT !.n = seq.n + 1]
    ELSE SeqOff

SeqReturn(isNew) == IF seq.on THEN [seq EXCEPT !.res = Append(seq.res, isNew)] ELSE seq

(***************************************************************************)
(* StateStore.CheckAndUpdateIfNew, store.go:129-171.                       *)
(***************************************************************************)
\* a goroutine calls CheckAndUpdateIfNew(owner, repo, tag)
CallCheckAndUpdateIfNew(p) ==
    /\ pc[p] = "idle"
    /\ calls < MaxCalls
    /\ \E i \in Idents, t \in Tags :
         arg' = [arg EXCEPT ![p] = [owner |-> i.Owner, repo |-> i.Name, tag |-> t]]
    /\ pc' = [pc EXCEPT ![p] = "cau_lock"]
    /\ calls' = calls + 1
    /\ seq' = SeqCall(arg'[p])
    /\ pre' = [pre EXCEPT ![p] = Found]
    /\ UNCHANGED <<ledgerVars, cur, data, ret, reopens, committed, writeFailed>>
    /\ UNCHANGED fetchVars
    /\ UNCHANGED <<notifyVars, lockVars>>

\* Lock that does not wait for the holder
CAU_LockNoWait(p) ==
    /\ pc[p] = "cau_lock"
    /\ mu' = p
    /\ pc' = [pc EXCEPT ![p] = "cau_check"]
    /\ UNCHANGED <<states, disk, now, arg, cur, data, ret, ghostVars>>
    /\ UNCHANGED fetchVars
    /\ UNCHANGED <<notifyVars, lockVars>>

\* store.go:132 s.mu.Lock()
CAU_Lock(p) ==
    /\ pc[p] = "cau_lock"
    /\ mu = 0
    /\ mu' = p
    /\ pc' = [pc EXCEPT ![p] = "cau_check"]
    /\ UNCHANGED <<states, disk, now, arg, cur, data, ret, ghostVars>>
    /\ UNCHANGED fetchVars
    /\ UNCHANGED <<notifyVars, lockVars>>

\* a check that stamps the record again when the tag is known
CAU_CheckTouch(p) ==
    /\ pc[p] = "cau_check"
    /\ \E t \in now..MaxClock : now' = t
    /\ LET key == getKey(arg[p].owner, arg[p].repo)
           c == IF key \in DOMAIN states
                THEN [exists |-> TRUE, state |-> states[key]]
                ELSE NoCur
       IN /\ cur' = [cur EXCEPT ![p] = c]
          /\ ret' = [ret EXCEPT ![p] = [isNew |-> FALSE, err |-> FALSE]]
          /\ states' = IF NotNew(c, arg[p].tag)
                       THEN MapSet(states, key,
                                   ReleaseState(arg[p].owner, arg[p].repo, arg[p].tag, now'))
                       ELSE states
          /\ pc' = [pc EXCEPT ![p] =
                      IF NotNew(c, arg[p].tag) THEN "cau_unlock" ELSE "cau_store"]
    /\ UNCHANGED <<mu, disk, arg, data, ghostVars>>
    /\ UNCHANGED fetchVars
    /\ UNCHANGED <<notifyVars, lockVars>>

\* store.go:136-141: read the record; not new: return (false, nil)
CAU_Check(p) ==
    /\ pc[p] = "cau_check"
    /\ LET key == getKey(arg[p].owner, arg[p].repo)
           c == IF key \in DOMAIN states
                THEN [exists |-> TRUE, state |-> states[key]]
                ELSE NoCur
       IN /\ cur' = [cur EXCEPT ![p] = c]
          /\ ret' = [ret EXCEPT ![p] = [isNew |-> FALSE, err |-> FALSE]]
          /\ pc' = [pc EXCEPT ![p] =
                      IF NotNew(c, arg[p].tag) THEN "cau_unlock" ELSE "cau_store"]
    /\ UNCHANGED <<ledgerVars, arg, data, ghostVars>>
    /\ UNCHANGED fetchVars
    /\ UNCHANGED <<notifyVars, lockVars>>

\* store.go:144-149: update the in-memory map
CAU_Store(p) ==
    /\ pc[p] = "cau_store"
    /\ \E t \in now..MaxClock : now' = t
    /\ states' = MapSet(states, getKey(arg[p].owner, arg[p].repo),
                        ReleaseState(arg[p].owner, arg[p].repo, arg[p].tag, now'))
    /\ pc' = [pc EXCEPT ![p] = "cau_persist"]
    /\ UNCHANGED <<mu, disk, arg, cur, data, ret, ghostVars>>
    /\ UNCHANGED fetchVars
    /\ UNCHANGED <<notifyVars, lockVars>>

\* store.go:153-170: serialize and write the file; a failed marshal returns
\* (false, err), a failed write returns (true, nil), a write returns (true, nil)
CAU_Persist(p) ==
    /\ pc[p] = "cau_persist"
    /\ LET m == MarshalIndent(states)
           key == getKey(arg[p].owner, arg[p].repo)
       IN IF m.err
          THEN /\ ret' = [ret EXCEPT ![p] = [isNew |-> FALSE, err |-> TRUE]]
               /\ pre' = [pre EXCEPT ![p].ioFailed = TRUE]
               /\ UNCHANGED <<disk, committed, writeFailed>>
          ELSE \E ok \in BOOLEAN :
                 /\ disk' = IF ok THEN File(m.data) ELSE disk
                 /\ ret' = [ret EXCEPT ![p] = [isNew |-> TRUE, err |-> FALSE]]
                 /\ pre' = [pre EXCEPT ![p].ioFailed = ~ok]
                 /\ committed' = IF ok THEN [committed EXCEPT ![key] = arg[p].tag]
                                 ELSE committed
                 /\ writeFailed' = (writeFailed \/ ~ok)
    /\ pc' = [pc EXCEPT ![p] = "cau_unlock"]
    /\ UNCHANGED <<states, mu, now, arg, cur, data, calls, reopens, seq>>
    /\ UNCHANGED fetchVars
    /\ UNCHANGED <<notifyVars, lockVars>>

\* store.go:133 the deferred s.mu.Unlock(): the call returns
CAU_Unlock(p) ==
    /\ pc[p] = "cau_unlock"
    /\ mu' = 0
    /\ pc' = [pc EXCEPT ![p] = "cau_return"]
    /\ UNCHANGED <<states, disk, now, arg, cur, data, ret, ghostVars>>
    /\ UNCHANGED fetchVars
    /\ UNCHANGED <<notifyVars, lockVars>>

\* the caller takes the result of CheckAndUpdateIfNew or IsNewRelease
Return(p) ==
    /\ pc[p] \in {"cau_return", "inr_return"}
    /\ pc' = [pc EXCEPT ![p] = "idle"]
    /\ seq' = IF pc[p] = "cau_return" THEN SeqReturn(ret[p].isNew) ELSE seq
    /\ arg' = [arg EXCEPT ![p] = NoArg]
    /\ cur' = [cur EXCEPT ![p] = NoCur]
    /\ ret' = [ret EXCEPT ![p] = NoRet]
    /\ pre' = [pre EXCEPT ![p] = NoPre]
    /\ UNCHANGED <<ledgerVars, data, calls, reopens, committed, writeFailed>>
    /\ UNCHANGED fetchVars
    /\ UNCHANGED <<notifyVars, lockVars>>

(***************************************************************************)
(* StateStore.IsNewRelease, store.go:120-123, with GetLatestTag 91-101.    *)
(***************************************************************************)
IsNewRelease(p) ==
    /\ pc[p] = "idle"
    /\ calls < MaxCalls
    /\ mu = 0
    /\ \E i \in Idents, t \in Tags :
         /\ arg' = [arg EXCEPT ![p] = [owner |-> i.Owner, repo |-> i.Name, tag |-> t]]
         /\ ret' = [ret EXCEPT ![p] =
                [isNew |-> IsNewReleaseIn(states, i.Owner, i.Name, t), err |-> FALSE]]
    /\ pre' = [pre EXCEPT ![p] = Found]
    /\ pc' = [pc EXCEPT ![p] = "inr_return"]
    /\ calls' = calls + 1
    /\ UNCHANGED <<ledgerVars, cur, data, reopens, seq, committed, writeFailed>>
    /\ UNCHANGED fetchVars
    /\ UNCHANGED <<notifyVars, lockVars>>

(***************************************************************************)
(* Environment: a process restart on the same path.  The clock advances    *)
(* where time.Now() is read.                                               *)
(***************************************************************************)
\* The process ends at any point (its goroutines with it) and a new one calls
\* NewStateStore(storePath), store.go:28-57.
Reopen ==
    /\ reopens < MaxReopens
    /\ reopens' = reopens + 1
    /\ states' = NewStateStore(disk)
    /\ mu' = 0
    /\ pc' = [p \in Procs |-> "idle"]
    /\ arg' = [p \in Procs |-> NoArg]
    /\ cur' = [p \in Procs |-> NoCur]
    /\ data' = [p \in Procs |-> {}]
    /\ ret' = [p \in Procs |-> NoRet]
    /\ pre' = [p \in Procs |-> NoPre]
    /\ seq' = SeqOff
    /\ UNCHANGED <<disk, now, calls, committed, writeFailed>>
    /\ UNCHANGED fetchVars
    /\ UNCHANGED <<notifyVars, lockVars>>

NextLedger ==
    \/ \E p \in Procs : CallCheckAndUpdateIfNew(p)
    \/ \E p \in Procs : CAU_Lock(p)
    \/ \E p \in Procs : CAU_Check(p)
    \/ \E p \in Procs : CAU_Store(p)
    \/ \E p \in Procs : CAU_Persist(p)
    \/ \E p \in Procs : CAU_Unlock(p)
    \/ \E p \in Procs : IsNewRelease(p)
    \/ \E p \in Procs : Return(p)
    \/ Reopen

SpecLedger == Init /\ [][NextLedger]_vars

(***************************************************************************)
(* SpecSeq: one goroutine uses the ledger, call after call, as the tests   *)
(* of store_test.go do; the process may end and restart at any point.      *)
(***************************************************************************)
Main == 1

NextSeq ==
    \/ CallCheckAndUpdateIfNew(Main)
    \/ CAU_Lock(Main)
    \/ CAU_Check(Main)
    \/ CAU_Store(Main)
    \/ CAU_Persist(Main)
    \/ CAU_Unlock(Main)
    \/ IsNewRelease(Main)
    \/ Return(Main)
    \/ Reopen

SpecSeq == Init /\ [][NextSeq]_vars

(***************************************************************************)
(* SpecAtomic: the scenario of TestCheckAndUpdateIfNew_Atomicity           *)
(* (store_test.go:12-66): some goroutines call CheckAndUpdateIfNew with    *)
(* the same arguments at once, on a store that holds no record of the      *)
(* identity or one with another tag.                                       *)
(***************************************************************************)
InitAtomic ==
    \E i \in Idents, t \in Tags, S \in (SUBSET Procs) \ {{}}, hasOld \in BOOLEAN :
      \E old \in IF hasOld THEN Tags \ {t} ELSE {""} :
        LET key == getKey(i.Owner, i.Name)
            m == IF hasOld
                 THEN MapSet(EmptyMap, key, ReleaseState(i.Owner, i.Name, old, 0))
                 ELSE EmptyMap
        IN /\ states = m
           /\ disk = IF hasOld THEN File(MarshalIndent(m).data) ELSE NoFile
           /\ mu = 0
           /\ now = 0
           /\ pc = [p \in Procs |-> IF p \in S THEN "cau_lock" ELSE "idle"]
           /\ arg = [p \in Procs |-> IF p \in S
                        THEN [owner |-> i.Owner, repo |-> i.Name, tag |-> t]
                        ELSE NoArg]
           /\ cur = [p \in Procs |-> NoCur]
           /\ data = [p \in Procs |-> {}]
           /\ ret = [p \in Procs |-> NoRet]
           /\ pre = [p \in Procs |-> IF p \in S
                        THEN [states |-> m,
                              disk |-> IF hasOld THEN File(MarshalIndent(m).data) ELSE NoFile,
                              ioFailed |-> FALSE]
                        ELSE NoPre]
           /\ calls = Cardinality(S)
           /\ reopens = 0
           /\ seq = SeqOff
           /\ committed = [k \in Keys |-> IF hasOld /\ k = key THEN old ELSE ""]
           /\ writeFailed = FALSE
           /\ FetchIdle
           /\ LockIdle
           /\ NotifyIdle

NextAtomic ==
    \/ \E p \in Procs : CAU_Lock(p)
    \/ \E p \in Procs : CAU_Check(p)
    \/ \E p \in Procs : CAU_Store(p)
    \/ \E p \in Procs : CAU_Persist(p)
    \/ \E p \in Procs : CAU_Unlock(p)

SpecAtomic == InitAtomic /\ [][NextAtomic]_vars

(***************************************************************************)
(* Properties of the ledger.                                               *)
(***************************************************************************)
Returned == {p \in Procs : pc[p] = "cau_return"}
Key(p) == getKey(arg[p].owner, arg[p].repo)

\* C1: when all the concurrent CheckAndUpdateIfNew calls with the same
\* arguments have returned, exactly one of them returned true, none returned
\* an error, and GetLatestTag of the identity is the tag.
C1_ExactlyOneWinner ==
    (\A p \in Procs : pc[p] \in {"idle", "cau_return"}) =>
        /\ Cardinality({p \in Returned : ret[p].isNew}) = 1
        /\ \A p \in Returned :
             /\ ~ret[p].err
             /\ GetLatestTagIn(states, arg[p].owner, arg[p].repo) = arg[p].tag

\* two callers raced and both are back: one winner, one loser
C1_Witness ==
    \E p, q \in Returned :
        /\ p # q
        /\ ret[p].isNew
        /\ ~ret[q].isNew
        /\ \A r \in Procs : pc[r] \in {"idle", "cau_return"}

\* C2: a sequential CheckAndUpdateIfNew call returns true exactly when, at
\* call time, the identity had no record or its stored tag differed from the
\* tag; after a true return GetLatestTag is the tag; the calls v1, v1, v2 on
\* one identity of a new store return true, false, true and leave v2 stored.
C2_TagChangeDetection ==
    /\ \A p \in Returned :
         /\ ret[p].isNew <=>
               \/ Key(p) \notin DOMAIN pre[p].states
               \/ pre[p].states[Key(p)].LatestTag # arg[p].tag
         /\ ret[p].isNew => GetLatestTagIn(states, arg[p].owner, arg[p].repo) = arg[p].tag
    /\ (seq.on /\ Len(seq.res) = Len(TestTags)) =>
         /\ seq.res = <<TRUE, FALSE, TRUE>>
         /\ GetLatestTagIn(states, TestIdent.Owner, TestIdent.Name) = "v2"

\* the three calls of the test have returned
C2_Witness == seq.on /\ Len(seq.res) = Len(TestTags)

\* C3: while every write of the ledger file has succeeded, a StateStore
\* created from the storage path returns for every identity the tag of the
\* last commit made for it, and "" for an identity never committed; so does
\* the store the process holds between calls, a restarted process included.
C3_PersistenceRoundTrip ==
    ~writeFailed =>
        \A i \in Idents :
            /\ GetLatestTagIn(NewStateStore(disk), i.Owner, i.Name)
                  = committed[getKey(i.Owner, i.Name)]
            /\ (\A p \in Procs : pc[p] = "idle") =>
                  GetLatestTagIn(states, i.Owner, i.Name)
                    = committed[getKey(i.Owner, i.Name)]

\* a restarted process finds the tag committed before the restart
C3_Witness ==
    /\ ~writeFailed
    /\ reopens > 0
    /\ pc[Main] = "idle"
    /\ committed[getKey("a", "x")] = "v1"
    /\ committed[getKey("b", "y")] = ""
    /\ GetLatestTagIn(states, "a", "x") = "v1"
    /\ GetLatestTagIn(states, "b", "y") = ""

\* C4: IsNewRelease returns true iff the identity has no record or the stored
\* tag differs from the tag, for every tag, the empty string too, and leaves
\* the map and the file as they were.
C4_IsNewRelease ==
    \A p \in Procs : pc[p] = "inr_return" =>
        /\ ret[p].isNew <=>
              \/ Key(p) \notin DOMAIN pre[p].states
              \/ pre[p].states[Key(p)].LatestTag # arg[p].tag
        /\ states = pre[p].states
        /\ disk = pre[p].disk

\* C5: at the moment CheckAndUpdateIfNew returns true, the file already holds
\* (identity, tag), so that a store reloaded from it does not find the tag new.
C5_DurableWhenReturnedTrue ==
    \A p \in Procs : (pc[p] \in {"cau_unlock", "cau_return"} /\ ret[p].isNew) =>
        /\ disk.exists
        /\ Key(p) \in DOMAIN NewStateStore(disk)
        /\ NewStateStore(disk)[Key(p)].LatestTag = arg[p].tag

\* C6: when serialization or the file write failed in CheckAndUpdateIfNew, the
\* in-memory update is kept and the call returns a non-nil error.
C6_WriteFailureSurfaced ==
    \A p \in Procs : (pc[p] \in {"cau_unlock", "cau_return"} /\ pre[p].ioFailed) =>
        /\ Key(p) \in DOMAIN states
        /\ states[Key(p)].LatestTag = arg[p].tag
        /\ ret[p].err

orchVars == <<run, dpc, bi, bj, bend, semaphore, wg, fetchMu,
              results, noReleaseCount, errorCount, rateLimitHit, reported, undelivered, out, added>>

\* a checkRepo that takes mu before it calls GetLatestRelease
GLR_FetchLocked(j) ==
    /\ wpc[j] = "glr_fetch"
    /\ fetchMu = 0
    /\ fetchMu' = j
    /\ \E a \in Answers :
         /\ wrel' = [wrel EXCEPT ![j] = a]
         /\ IF a.kind = "notfound"
            THEN /\ wres' = [wres EXCEPT ![j] = NoResult]
                 /\ wpc' = [wpc EXCEPT ![j] = "cr_record"]
            ELSE IF a.kind = "error"
            THEN /\ wres' = [wres EXCEPT ![j] = Failure(Errorf("get latest release failed:", a.err))]
                 /\ wpc' = [wpc EXCEPT ![j] = "cr_record"]
            ELSE IF BeforeSevenDaysAgo(a.age)
            THEN /\ wres' = [wres EXCEPT ![j] = NoResult]
                 /\ wpc' = [wpc EXCEPT ![j] = "cr_record"]
            ELSE /\ wres' = wres
                 /\ wpc' = [wpc EXCEPT ![j] = "glr_isnew"]
    /\ UNCHANGED <<ledgerVars, procVars, ghostVars, cfgDays, sources, repoConfigs, run, dpc, bi, bj,
                   bend, semaphore, wg, results, noReleaseCount, errorCount, rateLimitHit,
                   reported, undelivered, out, added, wdata>>
    /\ UNCHANGED <<notifyVars, lockVars>>

\* GetLatestRelease, up to the freshness test: the API call and what follows
\* from its answer.  The answer is kept in wrel for the properties.
GLR_Fetch(j) ==
    /\ wpc[j] = "glr_fetch"
    /\ \E a \in Answers :
         /\ wrel' = [wrel EXCEPT ![j] = a]
         /\ IF a.kind = "notfound"
            THEN /\ wres' = [wres EXCEPT ![j] = NoResult]
                 /\ wpc' = [wpc EXCEPT ![j] = "cr_lock"]
            ELSE IF a.kind = "error"
            THEN /\ wres' = [wres EXCEPT ![j] = Failure(Errorf("get latest release failed:", a.err))]
                 /\ wpc' = [wpc EXCEPT ![j] = "cr_lock"]
            ELSE IF BeforeSevenDaysAgo(a.age)
            THEN /\ wres' = [wres EXCEPT ![j] = NoResult]
                 /\ wpc' = [wpc EXCEPT ![j] = "cr_lock"]
            ELSE /\ wres' = wres
                 /\ wpc' = [wpc EXCEPT ![j] = "glr_isnew"]
    /\ UNCHANGED <<ledgerVars, procVars, ghostVars, cfgDays, sources, repoConfigs, orchVars, wdata>>
    /\ UNCHANGED <<notifyVars, lockVars>>

\* c.store.IsNewRelease(owner, repo, tagName): a read under the read lock
GLR_IsNewRelease(j) ==
    /\ wpc[j] = "glr_isnew"
    /\ mu = 0
    /\ IF IsNewReleaseIn(states, repoConfigs[j].Owner, repoConfigs[j].Name, UpstreamTag)
       THEN /\ wpc' = [wpc EXCEPT ![j] = "glr_update"]
            /\ wres' = wres
       ELSE /\ wpc' = [wpc EXCEPT ![j] = "cr_lock"]
            /\ wres' = [wres EXCEPT ![j] = NoResult]
    /\ UNCHANGED <<ledgerVars, procVars, ghostVars, cfgDays, sources, repoConfigs, orchVars, wrel, wdata>>
    /\ UNCHANGED <<notifyVars, lockVars>>

\* UpdateState, its locked part: the record is set in the map.  LastNotified
\* takes the clock's reading, which no lookup or orchestrator step reads.
GLR_UpdateState(j) ==
    /\ wpc[j] = "glr_update"
    /\ mu = 0
    /\ states' = MapSet(states, getKey(repoConfigs[j].Owner, repoConfigs[j].Name),
                        ReleaseState(repoConfigs[j].Owner, repoConfigs[j].Name, UpstreamTag, now))
    /\ wpc' = [wpc EXCEPT ![j] = "glr_marshal"]
    /\ UNCHANGED <<mu, disk, now, procVars, ghostVars, cfgDays, sources, repoConfigs, orchVars,
                   wrel, wres, wdata>>
    /\ UNCHANGED <<notifyVars, lockVars>>

\* save, its first half: the map is marshalled under the read lock
GLR_SaveMarshal(j) ==
    /\ wpc[j] = "glr_marshal"
    /\ mu = 0
    /\ wdata' = [wdata EXCEPT ![j] = MarshalIndent(states).data]
    /\ wpc' = [wpc EXCEPT ![j] = "glr_write"]
    /\ UNCHANGED <<ledgerVars, procVars, ghostVars, cfgDays, sources, repoConfigs, orchVars, wrel, wres>>
    /\ UNCHANGED <<notifyVars, lockVars>>

\* save, its second half: os.WriteFile of the marshalled bytes, outside any
\* lock.  A failure is printed by GetLatestRelease, which returns the release
\* either way.
GLR_SaveWrite(j) ==
    /\ wpc[j] = "glr_write"
    /\ \E ok \in BOOLEAN :
         /\ disk' = IF ok THEN File(wdata[j]) ELSE disk
         /\ writeFailed' = (writeFailed \/ ~ok)
    /\ wdata' = [wdata EXCEPT ![j] = {}]
    /\ wres' = [wres EXCEPT ![j] = ReleaseInfo(UpstreamTag)]
    /\ wpc' = [wpc EXCEPT ![j] = "cr_lock"]
    /\ UNCHANGED <<states, mu, now, procVars, pre, calls, reopens, seq, committed,
                   cfgDays, sources, repoConfigs, orchVars, wrel>>
    /\ UNCHANGED <<notifyVars, lockVars>>

\* lookups running on their own: NumLookups goroutines call GetLatestRelease
\* on one client, each for one of two repositories, and the store may already
\* hold an older tag of the first
LookupTargets == {Repo(1), Repo(2)}
OldTag == "v0"

InitLookup ==
    \E hasOld \in BOOLEAN, days \in CheckDaysChoices,
       targets \in [1..NumLookups -> LookupTargets] :
      LET m == IF hasOld
               THEN MapSet(EmptyMap, getKey(Repo(1).Owner, Repo(1).Name),
                           ReleaseState(Repo(1).Owner, Repo(1).Name, OldTag, 0))
               ELSE EmptyMap
      IN /\ disk = IF hasOld THEN File(MarshalIndent(m).data) ELSE NoFile
         /\ states = NewStateStore(disk)
         /\ mu = 0
         /\ now = 0
         /\ ProcInit
         /\ GhostInit
         /\ cfgDays = days
         /\ sources = NoSources
         /\ repoConfigs = [j \in Workers |-> IF j <= NumLookups THEN targets[j] ELSE Repo(j)]
         /\ run = 0
         /\ dpc = "idle"
         /\ bi = 0
         /\ bj = 0
         /\ bend = 0
         /\ semaphore = 0
         /\ wg = 0
         /\ fetchMu = 0
         /\ results = <<>>
         /\ noReleaseCount = 0
         /\ errorCount = 0
         /\ rateLimitHit = FALSE
         /\ wpc = [j \in Workers |-> IF j <= NumLookups THEN "glr_fetch" ELSE "none"]
         /\ wrel = [j \in Workers |-> NoAnswer]
         /\ wres = [j \in Workers |-> NoResult]
         /\ wdata = [j \in Workers |-> {}]
         /\ reported = [j \in Workers |-> 0]
         /\ undelivered = {}
         /\ LockIdle
         /\ out = NoReturn
         /\ added = {}
         /\ NotifyIdle

NextLookup ==
    \E j \in Workers :
        \/ GLR_Fetch(j)
        \/ GLR_IsNewRelease(j)
        \/ GLR_UpdateState(j)
        \/ GLR_SaveMarshal(j)
        \/ GLR_SaveWrite(j)

SpecLookup == InitLookup /\ [][NextLookup]_vars

\* ---------------------------------------------------------------------------
\* CheckForNewReleases: the goroutine that runs it (dpc) and the lookup
\* goroutines it starts, one per repository (wpc).

lookupVars == <<wpc, wrel, wres, wdata>>
Min(a, b) == IF a < b THEN a ELSE b

\* the call up to the batch loop: NewClient opens the ledger file again, the
\* repository list is built, the shared variables are declared.  Goroutines of
\* an earlier call have at most their semaphore receive left, on a channel
\* nobody else holds.
NewRun ==
    /\ dpc = "idle"
    /\ run < MaxRuns
    /\ run' = run + 1
    /\ states' = NewStateStore(disk)
    /\ results' = <<>>
    /\ noReleaseCount' = 0
    /\ errorCount' = 0
    /\ rateLimitHit' = FALSE
    /\ fetchMu' = 0
    /\ wg' = 0
    /\ semaphore' = 0
    /\ bi' = 0
    /\ bj' = 0
    /\ bend' = 0
    /\ wpc' = [j \in Workers |-> "none"]
    /\ wrel' = [j \in Workers |-> NoAnswer]
    /\ wres' = [j \in Workers |-> NoResult]
    /\ wdata' = [j \in Workers |-> {}]
    /\ dpc' = "batch"
    /\ out' = NoReturn
    /\ added' = {}
    /\ UNCHANGED <<mu, disk, now, procVars, ghostVars, cfgDays, sources, repoConfigs, reported, undelivered>>

\* CheckForNewReleases is called while no notification is under way
StartRun ==
    /\ NewRun
    /\ UNCHANGED <<notifyVars, lockVars>>

\* for i := 0; i < len(repoConfigs); i += batchSize: the loop test and the
\* head of the body (a new semaphore, end)
D_Batch ==
    /\ dpc = "batch"
    /\ IF bi < Len(repoConfigs)
       THEN /\ semaphore' = 0
            /\ bend' = Min(bi + batchSize, Len(repoConfigs))
            /\ bj' = bi
            /\ dpc' = "check"
       ELSE /\ dpc' = "finish"
            /\ UNCHANGED <<semaphore, bend, bj>>
    /\ UNCHANGED <<ledgerVars, procVars, ghostVars, cfgDays, sources, repoConfigs, run, bi, wg,
                   fetchMu, results, noReleaseCount, errorCount, rateLimitHit, reported, undelivered, out, added,
                   lookupVars>>
    /\ UNCHANGED <<notifyVars, lockVars>>

\* for j := i; j < end; j++: the loop test and the read of rateLimitHit.  The
\* read takes no lock; a read that misses a concurrent write has the outcome
\* of the read coming first, which the interleaving covers.
D_Check ==
    /\ dpc = "check"
    /\ dpc' = IF bj < bend /\ ~rateLimitHit THEN "dispatch" ELSE "wait"
    /\ UNCHANGED <<ledgerVars, procVars, ghostVars, cfgDays, sources, repoConfigs, run, bi, bj, bend,
                   semaphore, wg, fetchMu, results, noReleaseCount, errorCount,
                   rateLimitHit, reported, undelivered, out, added, lookupVars>>
    /\ UNCHANGED <<notifyVars, lockVars>>

\* D_Dispatch with a send that never blocks
D_DispatchNoSemaphore ==
    /\ dpc = "dispatch"
    /\ wg' = wg + 1
    /\ semaphore' = semaphore + 1
    /\ wpc' = [wpc EXCEPT ![bj + 1] = "glr_fetch"]
    /\ bj' = bj + 1
    /\ dpc' = "check"
    /\ UNCHANGED <<ledgerVars, procVars, ghostVars, cfgDays, sources, repoConfigs, run, bi, bend,
                   fetchMu, results, noReleaseCount, errorCount, rateLimitHit, reported, undelivered, out, added,
                   wrel, wres, wdata>>
    /\ UNCHANGED <<notifyVars, lockVars>>

\* wg.Add(1), the send on the semaphore (blocks while it is full) and the go
\* statement, then j++
D_Dispatch ==
    /\ dpc = "dispatch"
    /\ semaphore < concurrencyLimit
    /\ wg' = wg + 1
    /\ semaphore' = semaphore + 1
    /\ wpc' = [wpc EXCEPT ![bj + 1] = "glr_fetch"]
    /\ bj' = bj + 1
    /\ dpc' = "check"
    /\ UNCHANGED <<ledgerVars, procVars, ghostVars, cfgDays, sources, repoConfigs, run, bi, bend,
                   fetchMu, results, noReleaseCount, errorCount, rateLimitHit, reported, undelivered, out, added,
                   wrel, wres, wdata>>
    /\ UNCHANGED <<notifyVars, lockVars>>

\* D_Wait without wg.Wait(): the loop goes on while lookups are running
D_WaitNoBarrier ==
    /\ dpc = "wait"
    /\ IF rateLimitHit
       THEN /\ dpc' = "finish"
            /\ bi' = bi
       ELSE /\ dpc' = "batch"
            /\ bi' = bi + batchSize
    /\ UNCHANGED <<ledgerVars, procVars, ghostVars, cfgDays, sources, repoConfigs, run, bj, bend,
                   semaphore, wg, fetchMu, results, noReleaseCount, errorCount,
                   rateLimitHit, reported, undelivered, out, added, lookupVars>>
    /\ UNCHANGED <<notifyVars, lockVars>>

\* wg.Wait(), the test of rateLimitHit after it, the pause and i += batchSize
D_Wait ==
    /\ dpc = "wait"
    /\ wg = 0
    /\ IF rateLimitHit
       THEN /\ dpc' = "finish"
            /\ bi' = bi
       ELSE /\ dpc' = "batch"
            /\ bi' = bi + batchSize
    /\ UNCHANGED <<ledgerVars, procVars, ghostVars, cfgDays, sources, repoConfigs, run, bj, bend,
                   semaphore, wg, fetchMu, results, noReleaseCount, errorCount,
                   rateLimitHit, reported, undelivered, out, added, lookupVars>>
    /\ UNCHANGED <<notifyVars, lockVars>>

\* the summary and return results, nil
InResults(j) ==
    \E n \in 1..Len(results) :
        /\ results[n].Owner = repoConfigs[j].Owner
        /\ results[n].Repository = repoConfigs[j].Name
        /\ results[n].TagName = UpstreamTag

D_Finish ==
    /\ dpc = "finish"
    /\ dpc' = "idle"
    /\ reported' = [j \in Workers |-> IF j <= Len(repoConfigs) /\ InResults(j)
                                     THEN reported[j] + 1 ELSE reported[j]]
    /\ out' = [returned |-> TRUE, results |-> results, err |-> FALSE]
    /\ UNCHANGED <<undelivered, added>>
    /\ UNCHANGED <<ledgerVars, procVars, ghostVars, cfgDays, sources, repoConfigs, run, bi, bj, bend,
                   semaphore, wg, fetchMu, results, noReleaseCount, errorCount,
                   rateLimitHit, lookupVars>>
    /\ UNCHANGED <<notifyVars, lockVars>>

\* checkRepo after GetLatestRelease has returned: mu.Lock()
CR_Lock(j) ==
    /\ wpc[j] = "cr_lock"
    /\ fetchMu = 0
    /\ fetchMu' = j
    /\ wpc' = [wpc EXCEPT ![j] = "cr_record"]
    /\ UNCHANGED <<ledgerVars, procVars, ghostVars, cfgDays, sources, repoConfigs, run, dpc, bi, bj,
                   bend, semaphore, wg, results, noReleaseCount, errorCount, rateLimitHit,
                   reported, undelivered, out, added, wrel, wres, wdata>>
    /\ UNCHANGED <<notifyVars, lockVars>>

\* a checkRepo that takes every error for the rate limit's
CR_RecordHalt(j) ==
    /\ wpc[j] = "cr_record"
    /\ fetchMu = j
    /\ IF wres[j].err # <<>>
       THEN IF Contains(wres[j].err, "rate limit exceeded")
            THEN /\ rateLimitHit' = TRUE
                 /\ UNCHANGED <<errorCount, results, noReleaseCount, added>>
            ELSE /\ errorCount' = errorCount + 1
                 /\ rateLimitHit' = TRUE
                 /\ UNCHANGED <<results, noReleaseCount, added>>
       ELSE IF wres[j].release
            THEN /\ results' = Append(results, [Owner |-> repoConfigs[j].Owner,
                                                Repository |-> repoConfigs[j].Name,
                                                TagName |-> wres[j].tag])
                 /\ added' = added \cup {j}
                 /\ UNCHANGED <<rateLimitHit, errorCount, noReleaseCount>>
            ELSE /\ noReleaseCount' = noReleaseCount + 1
                 /\ UNCHANGED <<rateLimitHit, errorCount, results, added>>
    /\ fetchMu' = 0
    /\ wrel' = [wrel EXCEPT ![j] = NoAnswer]
    /\ wres' = [wres EXCEPT ![j] = NoResult]
    /\ wpc' = [wpc EXCEPT ![j] = "cr_done"]
    /\ UNCHANGED <<ledgerVars, procVars, ghostVars, cfgDays, sources, repoConfigs, run, dpc, bi, bj,
                   bend, semaphore, wg, reported, undelivered, out, wdata>>
    /\ UNCHANGED <<notifyVars, lockVars>>

\* checkRepo under the lock, and the deferred mu.Unlock()
CR_Record(j) ==
    /\ wpc[j] = "cr_record"
    /\ fetchMu = j
    /\ IF wres[j].err # <<>>
       THEN IF Contains(wres[j].err, "rate limit exceeded")
            THEN /\ rateLimitHit' = TRUE
                 /\ UNCHANGED <<errorCount, results, noReleaseCount, added>>
            ELSE /\ errorCount' = errorCount + 1
                 /\ UNCHANGED <<rateLimitHit, results, noReleaseCount, added>>
       ELSE IF wres[j].release
            THEN /\ results' = Append(results, [Owner |-> repoConfigs[j].Owner,
                                                Repository |-> repoConfigs[j].Name,
                                                TagName |-> wres[j].tag])
                 /\ added' = added \cup {j}
                 /\ UNCHANGED <<rateLimitHit, errorCount, noReleaseCount>>
            ELSE /\ noReleaseCount' = noReleaseCount + 1
                 /\ UNCHANGED <<rateLimitHit, errorCount, results, added>>
    /\ fetchMu' = 0
    /\ wrel' = [wrel EXCEPT ![j] = NoAnswer]
    /\ wres' = [wres EXCEPT ![j] = NoResult]
    /\ wpc' = [wpc EXCEPT ![j] = "cr_done"]
    /\ UNCHANGED <<ledgerVars, procVars, ghostVars, cfgDays, sources, repoConfigs, run, dpc, bi, bj,
                   bend, semaphore, wg, reported, undelivered, out, wdata>>
    /\ UNCHANGED <<notifyVars, lockVars>>

\* the deferred wg.Done()
\* a lookup whose wg.Done() is not deferred and is skipped once the run is halted
CR_DoneUnlessHalted(j) ==
    /\ wpc[j] = "cr_done"
    /\ wg' = IF rateLimitHit THEN wg ELSE wg - 1
    /\ wpc' = [wpc EXCEPT ![j] = "cr_release"]
    /\ UNCHANGED <<ledgerVars, procVars, ghostVars, cfgDays, sources, repoConfigs, run, dpc, bi, bj,
                   bend, semaphore, fetchMu, results, noReleaseCount, errorCount,
                   rateLimitHit, reported, undelivered, out, added, wrel, wres, wdata>>
    /\ UNCHANGED <<notifyVars, lockVars>>

CR_Done(j) ==
    /\ wpc[j] = "cr_done"
    /\ wg' = wg - 1
    /\ wpc' = [wpc EXCEPT ![j] = "cr_release"]
    /\ UNCHANGED <<ledgerVars, procVars, ghostVars, cfgDays, sources, repoConfigs, run, dpc, bi, bj,
                   bend, semaphore, fetchMu, results, noReleaseCount, errorCount,
                   rateLimitHit, reported, undelivered, out, added, wrel, wres, wdata>>
    /\ UNCHANGED <<notifyVars, lockVars>>

\* the goroutine's deferred receive on the semaphore of its batch; the loop
\* may have gone on to a later batch, whose semaphore is another channel
CR_Release(j) ==
    /\ wpc[j] = "cr_release"
    /\ semaphore' = IF j > bi THEN semaphore - 1 ELSE semaphore
    /\ wpc' = [wpc EXCEPT ![j] = "done"]
    /\ UNCHANGED <<ledgerVars, procVars, ghostVars, cfgDays, sources, repoConfigs, run, dpc, bi, bj,
                   bend, wg, fetchMu, results, noReleaseCount, errorCount, rateLimitHit,
                   reported, undelivered, out, added, wrel, wres, wdata>>
    /\ UNCHANGED <<notifyVars, lockVars>>

NextFetch ==
    \/ StartRun
    \/ D_Batch
    \/ D_Check
    \/ D_Dispatch
    \/ D_Wait
    \/ D_Finish
    \/ \E j \in Workers :
        \/ GLR_Fetch(j)
        \/ GLR_IsNewRelease(j)
        \/ GLR_UpdateState(j)
        \/ GLR_SaveMarshal(j)
        \/ GLR_SaveWrite(j)
        \/ CR_Lock(j)
        \/ CR_Record(j)
        \/ CR_Done(j)
        \/ CR_Release(j)

SpecFetch == Init /\ [][NextFetch]_vars

\* one call of CheckForNewReleases in a fresh process
FirstRun == run = 0 /\ StartRun

\* one call of CheckForNewReleases.  The ledger file is written without
\* failure and a release is 1 or 9 days old: a failed write shows in a later
\* run only, and 5 days take the path of 1 day in a run of the default window.
NextRun ==
    \/ FirstRun
    \/ D_Batch
    \/ D_Check
    \/ D_Dispatch
    \/ D_Wait
    \/ D_Finish
    \/ \E j \in Workers :
        \/ GLR_Fetch(j) /\ wrel'[j].age # 5
        \/ GLR_IsNewRelease(j)
        \/ GLR_UpdateState(j)
        \/ GLR_SaveMarshal(j)
        \/ GLR_SaveWrite(j) /\ ~writeFailed'
        \/ CR_Lock(j)
        \/ CR_Record(j)
        \/ CR_Done(j)
        \/ CR_Release(j)

SpecRun == Init /\ [][NextRun]_vars

\* ---------------------------------------------------------------------------
\* Properties of the release lookup

Lookups == 1..NumLookups
LookupReturned(j) == wpc[j] = "cr_lock"
SawFresh(j) == wrel[j].kind = "release" /\ ~BeforeSevenDaysAgo(wrel[j].age)
\* IsNewRelease has answered true for the lookup, UpdateState is due or running
InLedgerCall(j) == wpc[j] \in {"glr_update", "glr_marshal", "glr_write"}

\* C8: when several concurrent lookups observe the same fresh (identity, tag)
\* that the ledger does not yet hold, exactly one of them returns a
\* ReleaseInfo and every other one returns no release.
C8_SingleWinnerAmongLookups ==
    \A r \in LookupTargets :
        LET S == {j \in Lookups : repoConfigs[j] = r /\ SawFresh(j)}
        IN (Cardinality(S) > 1 /\ \A j \in S : LookupReturned(j)) =>
               Cardinality({j \in S : wres[j].release}) = 1

\* C9: a release whose publish time lies outside the configured freshness
\* window (cfg.GitHub.CheckDays) is never passed to the ledger, neither for
\* the read-check nor for an update, and is never returned as new.
C9_FreshnessFilter ==
    \A j \in Lookups :
        (wrel[j].kind = "release" /\ wrel[j].age > cfgDays) =>
            /\ ~InLedgerCall(j)
            /\ ~wres[j].release

\* ---------------------------------------------------------------------------
\* Properties of CheckForNewReleases

\* C7: across check runs on the same ledger file, each run opening the file
\* anew, with lookups running concurrently, a release (repository, tag) is in
\* the returned list of at most one run, as long as the repository's latest
\* tag stays the same and no write of the ledger file has failed.
C7_ReportedAtMostOnce ==
    ~writeFailed => \A j \in Workers : reported[j] <= 1

\* C10: once a lookup has raised rateLimitHit, no lookup is started for a
\* repository that was not already in flight, in this batch or a later one.
C10_HaltOnThrottle ==
    [][rateLimitHit => \A j \in Workers : wpc[j] = "none" => wpc'[j] = "none"]_vars

\* a lookup goroutine that has been started and has not yet called wg.Done()
InFlight(j) ==
    wpc[j] \in {"glr_fetch", "glr_isnew", "glr_update", "glr_marshal", "glr_write",
                "cr_lock", "cr_record", "cr_done"}

InOut(j) ==
    \E n \in 1..Len(out.results) :
        /\ out.results[n].Owner = repoConfigs[j].Owner
        /\ out.results[n].Repository = repoConfigs[j].Name

\* C11: when rateLimitHit has been raised, CheckForNewReleases returns only
\* after the lookups in flight have finished, with a nil error and with every
\* release a lookup appended to results; no appended release is lost on the way.
C11_PartialResultsReturned ==
    /\ \A j \in added : InResults(j)
    /\ (out.returned /\ rateLimitHit) =>
           /\ ~out.err
           /\ \A j \in Workers : ~InFlight(j)
           /\ \A j \in added : InOut(j)

\* a halted run that returns a release found before the halt
C11_Witness ==
    /\ out.returned
    /\ rateLimitHit
    /\ added # {}
    /\ \E j \in Workers : wpc[j] = "none"

Channel == notifiers[chan]

\* the two range loops of sendBatch move on to the next notifier, the next
\* release, or the end of the batch
Advance ==
    /\ chan' = IF chan < Len(notifiers) THEN chan + 1 ELSE 1
    /\ rel' = IF chan < Len(notifiers) THEN rel ELSE rel + 1
    /\ npc' = IF chan >= Len(notifiers) /\ rel + 1 > nend THEN "n_after" ELSE "m_wait"

SetStatus(st) ==
    IF caller = "manager"
    THEN [dstat EXCEPT ![rel][Channel] = st]
    ELSE dstat

\* times of the transport calls of the last minute, the new one included
LastMinute(times, t) ==
    Append(SelectSeq(times, LAMBDA x : x > t - minute), t)

\* NotifyAll up to the batch loop
N_Start ==
    /\ npc = "idle"
    /\ caller = "manager"
    /\ sends = 0
    /\ errs' = <<>>
    /\ ni' = 0
    /\ npc' = "n_batch"
    /\ UNCHANGED <<coreVars, clk, cfg, notifiers, nrel, net, tmplOK, mlim, nlim, cooldown, nmu, caller,
                   nend, rel, chan, deadline, wake, serr, dstat, limited, sentAt, entered,
                   lastCheck, lastSend, sends, elapses>>

\* for i := 0; i < len(releases); i += batchSize: the test, end, batchCtx and
\* the call of sendBatch; after the loop, return errors
N_Batch ==
    /\ npc = "n_batch"
    /\ IF ni < nrel
       THEN /\ nend' = IF ni + notifyBatchSize > nrel THEN nrel ELSE ni + notifyBatchSize
            /\ deadline' = clk + batchTimeout
            /\ rel' = ni + 1
            /\ chan' = 1
            /\ npc' = "m_wait"
       ELSE /\ npc' = "n_done"
            /\ UNCHANGED <<nend, deadline, rel, chan>>
    /\ UNCHANGED <<coreVars, clk, cfg, notifiers, nrel, net, tmplOK, mlim, nlim, cooldown, nmu, caller,
                   ni, wake, errs, serr, dstat, limited, sentAt, entered, lastCheck,
                   lastSend, sends, elapses>>

\* sendBatch: m.limiter.Wait(ctx).  It fails at once when ctx is done or when
\* the token would come after the deadline; the error is collected and the
\* loop continues with the next notifier.
\* a sendBatch that returns at the first wait that fails
M_WaitReturn ==
    /\ npc = "m_wait"
    /\ LET d == Delay(mlim, managerPeriod, managerBurst, clk)
       IN IF clk >= deadline \/ d > deadline - clk
          THEN /\ errs' = Append(errs, ErrLimiterWait)
               /\ dstat' = SetStatus("skipped")
               /\ npc' = "n_after"
               /\ UNCHANGED <<mlim, wake, rel, chan>>
          ELSE /\ mlim' = Reserve(mlim, managerPeriod, managerBurst, clk)
               /\ wake' = clk + d
               /\ npc' = IF d = 0 THEN "s_check" ELSE "m_waiting"
               /\ UNCHANGED <<errs, dstat, rel, chan>>
    /\ UNCHANGED <<coreVars, clk, cfg, notifiers, nrel, net, tmplOK, nlim, cooldown, nmu, caller,
                   ni, nend, deadline, serr, limited, sentAt, entered, lastCheck,
                   lastSend, sends, elapses>>
M_Wait ==
    /\ npc = "m_wait"
    /\ LET d == Delay(mlim, managerPeriod, managerBurst, clk)
       IN IF clk >= deadline \/ d > deadline - clk
          THEN /\ errs' = Append(errs, ErrLimiterWait)
               /\ dstat' = SetStatus("skipped")
               /\ Advance
               /\ UNCHANGED <<mlim, wake>>
          ELSE /\ mlim' = Reserve(mlim, managerPeriod, managerBurst, clk)
               /\ wake' = clk + d
               /\ npc' = IF d = 0 THEN "s_check" ELSE "m_waiting"
               /\ UNCHANGED <<errs, dstat, rel, chan>>
    /\ UNCHANGED <<coreVars, clk, cfg, notifiers, nrel, net, tmplOK, nlim, cooldown, nmu, caller,
                   ni, nend, deadline, serr, limited, sentAt, entered, lastCheck,
                   lastSend, sends, elapses>>

\* the end of a wait of m.limiter.Wait: the token's time has come.  When that
\* is the deadline itself, the timer and ctx.Done() are both ready and either
\* is taken; on ctx.Done() the reservation is cancelled.
M_WaitEnd ==
    /\ npc = "m_waiting"
    /\ clk' = wake
    /\ \E intime \in IF wake < deadline THEN {TRUE} ELSE BOOLEAN :
         IF intime
         THEN /\ npc' = "s_check"
              /\ UNCHANGED <<mlim, errs, dstat, rel, chan>>
         ELSE /\ mlim' = Restore(mlim, managerPeriod)
              /\ errs' = Append(errs, ErrLimiterWait)
              /\ dstat' = SetStatus("skipped")
              /\ Advance
    /\ UNCHANGED <<coreVars, cfg, notifiers, nrel, net, tmplOK, nlim, cooldown, nmu, caller,
                   ni, nend, deadline, wake, serr, limited, sentAt, entered, lastCheck,
                   lastSend, sends, elapses>>

\* Send: canSendMessage and the refusal during the cooldown
canSendMessageLate(c) == ~(cooldown[c].active /\ clk <= cooldown[c].until)
canSendMessage(c) == ~(cooldown[c].active /\ clk < cooldown[c].until)

\* Send calls canSendMessage: n.mu.Lock()
S_Lock ==
    /\ npc = "s_check"
    /\ nmu[Channel] = 0
    /\ nmu' = [nmu EXCEPT ![Channel] = 1]
    /\ npc' = "s_locked"
    /\ UNCHANGED <<coreVars, clk, cfg, notifiers, nrel, net, tmplOK, mlim, nlim, cooldown, caller,
                   ni, nend, rel, chan, deadline, wake, errs, serr, dstat, limited, sentAt,
                   entered, lastCheck, lastSend, sends, elapses>>

\* canSendMessage under the mutex, which it does not release
S_CheckHolding ==
    /\ npc = "s_locked"
    /\ IF canSendMessage(Channel)
       THEN /\ cooldown' = [cooldown EXCEPT ![Channel].active = FALSE]
            /\ lastCheck' = [channel |-> Channel, at |-> clk, can |-> TRUE, remaining |-> 0]
            /\ serr' = <<>>
            /\ dstat' = dstat
            /\ npc' = "s_wait"
       ELSE /\ lastCheck' = [channel |-> Channel, at |-> clk, can |-> FALSE,
                             remaining |-> cooldown[Channel].until - clk]
            /\ serr' = ErrCooling(Channel, cooldown[Channel].until - clk)
            /\ dstat' = SetStatus("refused")
            /\ npc' = "s_return"
            /\ UNCHANGED cooldown
    /\ UNCHANGED <<coreVars, clk, cfg, notifiers, nrel, net, tmplOK, mlim, nlim, nmu, caller,
                   ni, nend, rel, chan, deadline, wake, errs, limited, sentAt, entered,
                   lastSend, sends, elapses>>

\* canSendMessage under the mutex: the cooldown is tested, and cleared when it
\* is over; the deferred n.mu.Unlock()
S_Check ==
    /\ npc = "s_locked"
    /\ nmu' = [nmu EXCEPT ![Channel] = 0]
    /\ IF canSendMessage(Channel)
       THEN /\ cooldown' = [cooldown EXCEPT ![Channel].active = FALSE]
            /\ lastCheck' = [channel |-> Channel, at |-> clk, can |-> TRUE, remaining |-> 0]
            /\ serr' = <<>>
            /\ dstat' = dstat
            /\ npc' = "s_wait"
       ELSE /\ lastCheck' = [channel |-> Channel, at |-> clk, can |-> FALSE,
                             remaining |-> cooldown[Channel].until - clk]
            /\ serr' = ErrCooling(Channel, cooldown[Channel].until - clk)
            /\ dstat' = SetStatus("refused")
            /\ npc' = "s_return"
            /\ UNCHANGED cooldown
    /\ UNCHANGED <<coreVars, clk, cfg, notifiers, nrel, net, tmplOK, mlim, nlim, caller,
                   ni, nend, rel, chan, deadline, wake, errs, limited, sentAt, entered,
                   lastSend, sends, elapses>>

\* Send: n.limiter.Wait(context.Background())
S_Wait ==
    /\ npc = "s_wait"
    /\ LET d == Delay(nlim[Channel], Period(Channel), Burst(Channel), clk)
       IN /\ nlim' = [nlim EXCEPT ![Channel] =
                         Reserve(nlim[Channel], Period(Channel), Burst(Channel), clk)]
          /\ wake' = clk + d
          /\ npc' = IF d = 0 THEN "s_post" ELSE "s_waiting"
    /\ UNCHANGED <<coreVars, clk, cfg, notifiers, nrel, net, tmplOK, mlim, cooldown, nmu, caller,
                   ni, nend, rel, chan, deadline, errs, serr, dstat, limited, sentAt,
                   entered, lastCheck, lastSend, sends, elapses>>

\* the end of a wait of n.limiter.Wait; its context is never done
S_WaitEnd ==
    /\ npc = "s_waiting"
    /\ clk' = wake
    /\ npc' = "s_post"
    /\ UNCHANGED <<coreVars, cfg, notifiers, nrel, net, tmplOK, mlim, nlim, cooldown, nmu, caller,
                   ni, nend, rel, chan, deadline, wake, errs, serr, dstat, limited, sentAt,
                   entered, lastCheck, lastSend, sends, elapses>>

\* Send: renderTemplate, the HTTP request (sendMarkdown, sendMessage) and the
\* cooldown it may trigger
S_Post ==
    /\ npc = "s_post"
    /\ IF ~tmplOK
       THEN /\ serr' = ErrTemplate
            /\ dstat' = SetStatus("failed")
            /\ UNCHANGED <<clk, cooldown, sentAt, entered, lastSend>>
       ELSE \E o \in net.outcomes, d \in net.latency :
              LET e == sendError(Channel, o)
              IN /\ clk' = clk + d
                 /\ sentAt' = [sentAt EXCEPT ![Channel] = LastMinute(sentAt[Channel], clk)]
                 /\ lastSend' = [channel |-> Channel, answer |-> o, at |-> clk + d]
                 /\ dstat' = SetStatus(IF o = "ok" THEN "ok"
                                       ELSE IF o \in Throttles THEN "throttled" ELSE "failed")
                 /\ IF triggersCooldown(Channel, e)
                    THEN /\ nmu[Channel] = 0
                         /\ cooldown' = [cooldown EXCEPT ![Channel] =
                                [active |-> TRUE, until |-> clk + d + CooldownFor(Channel)]]
                         /\ entered' = [entered EXCEPT ![Channel] =
                                [set |-> TRUE, at |-> clk + d, duration |-> CooldownFor(Channel)]]
                         /\ serr' = ErrThrottled(Channel, e)
                    ELSE /\ serr' = e
                         /\ UNCHANGED <<cooldown, entered>>
    /\ npc' = "s_return"
    /\ UNCHANGED <<coreVars, cfg, notifiers, nrel, net, tmplOK, mlim, nlim, nmu, caller,
                   ni, nend, rel, chan, deadline, wake, errs, limited, lastCheck,
                   sends, elapses>>

\* Send has returned: sendBatch collects the error, and sleeps when it
\* classifies it as a rate-limit error; a direct caller just has the error
S_Return ==
    /\ npc = "s_return"
    /\ IF caller = "direct"
       THEN /\ npc' = "idle"
            /\ UNCHANGED <<clk, errs, limited, rel, chan>>
       ELSE /\ IF serr = <<>>
               THEN UNCHANGED <<clk, errs, limited>>
               ELSE IF isRateLimitError(serr)
               THEN /\ clk' = clk + rateLimitPause
                    /\ errs' = Append(errs, ErrRateLimit(serr))
                    /\ limited' = limited \cup {Channel}
               ELSE /\ errs' = Append(errs, serr)
                    /\ UNCHANGED <<clk, limited>>
            /\ Advance
    /\ UNCHANGED <<coreVars, cfg, notifiers, nrel, net, tmplOK, mlim, nlim, cooldown, nmu, caller,
                   ni, nend, deadline, wake, serr, dstat, sentAt, entered, lastCheck,
                   lastSend, sends, elapses>>

\* sendBatch has returned: cancel(), the errors are appended, the pause before
\* the next batch, i += batchSize
N_After ==
    /\ npc = "n_after"
    /\ clk' = IF nend < nrel THEN clk + batchPause ELSE clk
    /\ ni' = ni + notifyBatchSize
    /\ npc' = "n_batch"
    /\ UNCHANGED <<coreVars, cfg, notifiers, nrel, net, tmplOK, mlim, nlim, cooldown, nmu, caller,
                   nend, rel, chan, deadline, wake, errs, serr, dstat, limited, sentAt,
                   entered, lastCheck, lastSend, sends, elapses>>

\* a caller of its own calls Send on one of the notifiers
S_Call ==
    /\ npc = "idle"
    /\ caller = "direct"
    /\ sends < MaxSends
    /\ sends' = sends + 1
    /\ \E n \in 1..Len(notifiers) : chan' = n
    /\ npc' = "s_check"
    /\ UNCHANGED <<coreVars, clk, cfg, notifiers, nrel, net, tmplOK, mlim, nlim, cooldown, nmu, caller,
                   ni, nend, rel, deadline, wake, errs, serr, dstat, limited, sentAt,
                   entered, lastCheck, lastSend, elapses>>

\* time passes between two Send calls
IdleTimes == {1, 59, 540}

Elapse ==
    /\ npc = "idle"
    /\ caller = "direct"
    /\ elapses < MaxElapses
    /\ elapses' = elapses + 1
    /\ \E d \in IdleTimes : clk' = clk + d
    /\ UNCHANGED <<coreVars, cfg, notifiers, nrel, net, tmplOK, mlim, nlim, cooldown, nmu, npc, caller,
                   ni, nend, rel, chan, deadline, wake, errs, serr, dstat, limited, sentAt,
                   entered, lastCheck, lastSend, sends>>

\* the state after construction of the ledger and of a manager with the
\* notifiers ns, about to notify n releases over the network w
CoreInit ==
    /\ disk = NoFile
    /\ states = NewStateStore(NoFile)
    /\ mu = 0
    /\ now = 0
    /\ ProcInit
    /\ GhostInit
    /\ FetchIdle
    /\ LockIdle

\* the fields of a new Manager and of new notifiers, and the run ahead of them
ManagerFields(n, w, t, who) ==
    /\ clk = 0
    /\ nrel = n
    /\ net = w
    /\ tmplOK = t
    /\ mlim = NewLimiter(managerPeriod, managerBurst, 0)
    /\ nlim = [c \in Channels |-> NewLimiter(Period(c), Burst(c), 0)]
    /\ cooldown = [c \in Channels |-> NoCooldown]
    /\ nmu = [c \in Channels |-> 0]
    /\ caller = who
    /\ ni = 0
    /\ nend = 0
    /\ rel = 0
    /\ chan = 1
    /\ deadline = 0
    /\ wake = 0
    /\ errs = <<>>
    /\ serr = <<>>
    /\ dstat = [r \in 1..n |-> [c \in Channels |-> "none"]]
    /\ limited = {}
    /\ sentAt = [c \in Channels |-> <<>>]
    /\ entered = [c \in Channels |-> NoEntry]
    /\ lastCheck = NoCheck
    /\ lastSend = NoSend
    /\ sends = 0
    /\ elapses = 0

NewManager(ns, n, w, t, who) ==
    /\ cfg = ConfigOf(ns)
    /\ notifiers = ns
    /\ npc = "idle"
    /\ ManagerFields(n, w, t, who)

\* NewManager adds dingtalk first, then telegram, each when enabled
NotifierLists == {<<"dingtalk">>, <<"telegram">>, <<"dingtalk", "telegram">>}
FastNet == [outcomes |-> {"ok", "limitcode"}, latency |-> {0}]
SlowNet == [outcomes |-> {"ok"}, latency |-> {0, httpTimeout - 1, httpTimeout}]

\* the releases that make two channels use up the manager's burst together
PairRun == managerBurst \div 2 + 1

\* NotifyAll is run: on a few releases with a network that may answer and
\* take as long as it likes, on a long list with a fast network that delivers
\* or throttles, or on a middle-sized list with a slow network that delivers, or over both
\* channels on the releases of PairRun
InitNotify ==
    /\ CoreInit
    /\ \/ \E ns \in NotifierLists, n \in 1..NumReleases, t \in BOOLEAN :
            NewManager(ns, n, FullNet, t, "manager")
       \/ \E c \in Channels : NewManager(<<c>>, LongRun, FastNet, TRUE, "manager")
       \/ NewManager(<<"telegram">>, SlowRun, SlowNet, TRUE, "manager")
       \/ NewManager(<<"dingtalk", "telegram">>, PairRun, FastNet, TRUE, "manager")

NextNotify ==
    \/ N_Start
    \/ N_Batch
    \/ M_Wait
    \/ M_WaitEnd
    \/ S_Lock
    \/ S_Check
    \/ S_Wait
    \/ S_WaitEnd
    \/ S_Post
    \/ S_Return
    \/ N_After

SpecNotify == InitNotify /\ [][NextNotify]_vars

\* Send is called on the notifiers at any times
InitChannel ==
    /\ CoreInit
    /\ NewManager(<<"dingtalk", "telegram">>, 0, [FullNet EXCEPT !.latency = {0}], TRUE, "direct")

NextChannel ==
    \/ S_Call
    \/ Elapse
    \/ S_Lock
    \/ S_Check
    \/ S_Wait
    \/ S_WaitEnd
    \/ S_Post
    \/ S_Return

SpecChannel == InitChannel /\ [][NextChannel]_vars

\* ---------------------------------------------------------------------------
\* Properties of the notification manager and the channel notifiers

Enabled == {notifiers[n] : n \in 1..Len(notifiers)}
Done == npc = "n_done"
\* Send was called for the delivery
Invoked(r, c) == dstat[r][c] \in {"ok", "throttled", "failed", "refused"}
\* the delivery produced an error: Send returned one, or the wait before it did
Errored(r, c) == dstat[r][c] \in {"throttled", "failed", "refused", "skipped"}
Deliveries == {rc \in (1..nrel) \X Enabled : TRUE}

\* C13: with two enabled channels A and B, if A is throttled on release #1
\* then B's Send is still called for release #1 and for release #2.
C13_ChannelIsolation ==
    (Done /\ nrel >= 2) =>
        \A a \in Enabled, b \in Enabled :
            (a # b /\ dstat[1][a] = "throttled") => (Invoked(1, b) /\ Invoked(2, b))

\* C14: after a delivery to a channel has failed with an error that
\* isRateLimitError accepts, no transport call is made to that channel for the
\* rest of the NotifyAll run.
C14_NoCallAfterRateLimit ==
    [][\A c \in Channels : c \in limited => sentAt'[c] = sentAt[c]]_vars

\* the state right after canSendMessage of the running Send
JustChecked == npc = "s_wait" \/ (npc = "s_return" /\ ~lastCheck.can)

\* C15: once a channel has entered a cooldown of duration d at time t, a
\* canSendMessage before t+d answers false with the remaining time t+d-now,
\* which is positive, and one at or after t+d answers true and leaves the
\* cooldown inactive, so that Send goes on to the limiter.
C15_CooldownStateMachine ==
    (JustChecked /\ entered[Channel].set) =>
        LET e == entered[Channel]
        IN IF clk < e.at + e.duration
           THEN /\ ~lastCheck.can
                /\ lastCheck.remaining = e.at + e.duration - clk
                /\ lastCheck.remaining > 0
                /\ npc = "s_return"
           ELSE /\ lastCheck.can
                /\ ~cooldown[Channel].active
                /\ npc = "s_wait"

\* a Send passes the check exactly when the cooldown ends
C15_Witness ==
    /\ npc = "s_wait"
    /\ entered[Channel].set
    /\ clk = entered[Channel].at + entered[Channel].duration

\* C16: when the transport of a Send reports a provider-side throttle (HTTP
\* 429 or the provider's rate-limit code), the channel is in cooldown for its
\* cooldown duration when Send returns.
C16_ThrottleEntersCooldown ==
    (npc = "s_return" /\ lastCheck.can /\ tmplOK /\ lastSend.answer \in Throttles) =>
        /\ cooldown[Channel].active
        /\ cooldown[Channel].until = clk + CooldownFor(Channel)

\* C17: NotifyAll goes through every release and every enabled channel: for
\* each pair Send was called or an error was recorded, and the returned list
\* holds exactly one error for each delivery that failed or was skipped.
C17_AllErrorsCollected ==
    Done =>
        /\ \A rc \in Deliveries : Invoked(rc[1], rc[2]) \/ Errored(rc[1], rc[2])
        /\ Len(errs) = Cardinality({rc \in Deliveries : Errored(rc[1], rc[2])})

\* a run with a delivered message, a failed one and a skipped one
C17_Witness ==
    /\ Done
    /\ \E rc \in Deliveries : dstat[rc[1]][rc[2]] = "ok"
    /\ \E rc \in Deliveries : dstat[rc[1]][rc[2]] = "skipped"
    /\ \E rc \in Deliveries : dstat[rc[1]][rc[2]] \in {"failed", "throttled"}

\* C18: when no transport call fails, NotifyAll calls every enabled channel's
\* delivery for every release.
C18_NoDrop ==
    (Done /\ tmplOK /\ \A rc \in Deliveries : dstat[rc[1]][rc[2]] \notin {"throttled", "failed"}) =>
        \A rc \in Deliveries : dstat[rc[1]][rc[2]] = "ok"

\* C19: the transport calls to DingTalk within any 60 seconds number at most
\* 20, the documented limit.
C19_DingTalkPerMinute ==
    Len(sentAt["dingtalk"]) <= dingtalkPerMinute

\* C20: a wait for a limiter slot during sendBatch that is still going on when
\* batchCtx expires ends with an error and without the delivery.
C20_WaitsRespectContext ==
    [][(caller = "manager" /\ npc \in {"m_waiting", "s_waiting"} /\ wake >= deadline)
          => npc' # "s_post"]_vars

\* ---------------------------------------------------------------------------
\* The ledger file after concurrent updates

\* C22: when every concurrent call that updates the store has returned and no
\* write of the file has failed, the file holds the snapshot of the map in
\* memory; no older snapshot has overwritten a newer one.
C22_SnapshotMatchesMemory ==
    (/\ \A j \in Lookups : LookupReturned(j)
     /\ \E j \in Lookups : wres[j].release
     /\ ~writeFailed)
        => disk = File(MarshalIndent(states).data)

\* ---------------------------------------------------------------------------
\* The batches of CheckForNewReleases

\* the batch of the j-th repository of repoConfigs, counted from 0
BatchOf(j) == (j - 1) \div batchSize
\* checkRepo has returned for the lookup: wg.Done() has been called
Completed(j) == wpc[j] \in {"cr_release", "done"}

\* C23: no lookup of a batch is started before every lookup of the batches
\* before it has completed.
C23_BatchBarrier ==
    \A j \in Workers, k \in Workers :
        (wpc[j] # "none" /\ BatchOf(k) < BatchOf(j)) => Completed(k)

\* a lookup of the second batch is running
C23_Witness ==
    \E j \in Workers : BatchOf(j) > 0 /\ wpc[j] = "glr_isnew"

\* C24: the loop reads rateLimitHit only while no lookup goroutine is inside
\* the section of checkRepo that writes the accumulators under the mutex: no
\* read of an accumulator is concurrent with a write.
C24_AccumulatorsProtected ==
    dpc = "check" => \A j \in Workers : wpc[j] # "cr_record"

\* C26: a lookup error other than the rate limit adds one to errorCount and
\* leaves rateLimitHit alone, and a run in which rateLimitHit was never raised
\* returns only after every repository has been looked up.
C26_ErrorsCountedNoHalt ==
    /\ [][\A j \in Workers :
            (/\ wpc[j] = "cr_record"
             /\ wpc'[j] = "cr_done"
             /\ wres[j].err # <<>>
             /\ ~Contains(wres[j].err, "rate limit exceeded"))
                => (errorCount' = errorCount + 1 /\ rateLimitHit' = rateLimitHit)]_vars
    /\ []((out.returned /\ ~rateLimitHit) => \A j \in Workers : Completed(j))

\* a run with a failed lookup in its first batch that went through every repository
C26_Witness ==
    /\ out.returned
    /\ ~rateLimitHit
    /\ errorCount > 0
    /\ errorCount + noReleaseCount + Len(results) = NumRepos

\* ---------------------------------------------------------------------------
\* The notifier's limiter, cooldown and mutex

\* the budget of a limiter that was never used: burst tokens
FullBudget(c) == Burst(c) * Period(c)
BudgetAt(c, t) == Credit(nlim[c], Period(c), Burst(c), t)

\* C27 as stated: when Send has put the channel into cooldown, the channel's
\* limiter is back at its full budget.
C27_CooldownEntryResets ==
    (/\ npc = "s_return"
     /\ lastCheck.can
     /\ cooldown[Channel].active
     /\ entered[Channel].at = clk)
        => BudgetAt(Channel, clk) = FullBudget(Channel)

\* C27, amended: the canSendMessage that ends a cooldown finds the channel's
\* limiter at its full budget.
C27_CleanBudgetAtExpiry ==
    [][(npc = "s_locked" /\ cooldown[Channel].active /\ ~cooldown'[Channel].active)
          => BudgetAt(Channel, clk) = FullBudget(Channel)]_vars

\* a cooldown entered with a used limiter has ended, and Send goes on
C27_Witness ==
    /\ npc = "s_wait"
    /\ entered[Channel].set
    /\ clk >= entered[Channel].at + entered[Channel].duration
    /\ lastCheck.at = clk
    /\ lastSend.channel = Channel
    /\ lastSend.at = entered[Channel].at
    /\ nlim[Channel].level < FullBudget(Channel) - Period(Channel)
    /\ BudgetAt(Channel, clk) = FullBudget(Channel)

\* C28: while Send waits for a slot of its limiter or is in the transport
\* call, and when it returns, the notifier's mutex is free.
C28_MutexNotHeldWhileWaiting ==
    npc \in {"s_wait", "s_waiting", "s_post", "s_return"} => nmu[Channel] = 0

\* Send is blocked on its limiter, canSendMessage having locked and unlocked
C28_Witness ==
    /\ npc = "s_waiting"
    /\ lastCheck.channel = Channel
    /\ lastCheck.at = clk
    /\ nmu[Channel] = 0

\* ---------------------------------------------------------------------------
\* The manager's limiter and the pace of the deliveries

\* C29: a channel is made to wait for a slot only by what was sent to it: the
\* manager's limiter starts with managerBurst tokens, so a delivery to a
\* channel that has had fewer than managerBurst deliveries does not wait
\* because of the deliveries to another channel.
C29_IndependentChannels ==
    npc = "m_waiting" => rel > managerBurst

\* C30: a transport call of a NotifyAll run is made later than the end of the
\* delivery before it: a pause lies between two deliveries.
C30_PauseAfterDelivery ==
    [][(caller = "manager" /\ sentAt' # sentAt /\ lastSend.channel # "")
          => clk > lastSend.at]_vars

\* ---------------------------------------------------------------------------
\* runOnce from the releases it has found to the notifications

\* cfg.Notifications with a channel enabled
Configs ==
    {c \in [Channels -> {"off", "ok", "nocred"}] : \E ch \in Channels : c[ch] # "off"}

\* the notifiers NewManager adds, DingTalk before Telegram
EnabledList(c) ==
    (IF c["dingtalk"] = "ok" THEN <<"dingtalk">> ELSE <<>>)
        \o (IF c["telegram"] = "ok" THEN <<"telegram">> ELSE <<>>)

\* notifier.NewManager(cfg) in runOnce: dingtalk.New and telegram.New refuse
\* an empty credential, AddDingTalkNotifier and AddTelegramNotifier hand the
\* error on, NewManager returns it and runOnce returns with it
R_NewManager ==
    /\ npc = "r_new"
    /\ IF \E ch \in Channels : cfg[ch] = "nocred"
       THEN /\ npc' = "r_failed"
            /\ UNCHANGED notifiers
       ELSE /\ notifiers' = EnabledList(cfg)
            /\ npc' = "idle"
    /\ UNCHANGED <<coreVars, clk, cfg, nrel, net, tmplOK, mlim, nlim, cooldown, nmu, caller,
                   ni, nend, rel, chan, deadline, wake, errs, serr, dstat, limited, sentAt,
                   entered, lastCheck, lastSend, sends, elapses>>

InitSetup ==
    /\ CoreInit
    /\ \E c \in Configs, n \in {1, SlowRun} :
         /\ cfg = c
         /\ notifiers = <<>>
         /\ npc = "r_new"
         /\ ManagerFields(n, FastNet, TRUE, "manager")

NextSetup ==
    \/ R_NewManager
    \/ NextNotify

SpecSetup == InitSetup /\ [][NextSetup]_vars

\* C21: when a channel is enabled without its credentials and another channel
\* is enabled with them, the run is not aborted: the manager is built without
\* the first channel and the releases are delivered to the other.
C21_MissingCredentialsNotFatal ==
    (\E ch \in Channels : cfg[ch] = "ok") => npc # "r_failed"

\* ---------------------------------------------------------------------------
\* The repositories of a run: gathered from the sources, looked up in batches

\* a key that leaves the repository's name out
RepoKeyOwner(r) == r.Owner
\* fmt.Sprintf("%s/%s", repo.Owner, repo.Name)
RepoKey(r) == r.Owner \o "/" \o r.Name

\* for _, repo := range list { repoMap[key] = repo }
RECURSIVE AddRepos(_, _)
AddRepos(m, list) ==
    IF list = <<>> THEN m
    ELSE AddRepos(MapSet(m, RepoKey(Head(list)), Head(list)), Tail(list))

\* the lists in the order the run takes them: cfg.GitHub.Repos, the user's
\* repositories, the starred ones, those of the organisations
RECURSIVE Gather(_, _)
Gather(m, srcs) ==
    IF srcs = <<>> THEN m ELSE Gather(AddRepos(m, Head(srcs)), Tail(srcs))

repoMap(srcs) == Gather(EmptyMap, srcs)

\* for _, repo := range repoMap { repoConfigs = append(repoConfigs, repo) }:
\* the slice has the values of the map, in any order
RepoSlices(m) ==
    {l \in [1..Cardinality(DOMAIN m) -> {m[k] : k \in DOMAIN m}] :
        \A a \in DOMAIN l, b \in DOMAIN l : a # b => l[a] # l[b]}

\* the orders taken for a run: one of them and its rotations, so that every
\* repository comes at every place of a batch
Rotations(l) ==
    {[i \in 1..Len(l) |-> l[((i + k - 1) % Len(l)) + 1]] : k \in 0..(Len(l) - 1)}
SomeSlices(m) == Rotations(CHOOSE l \in RepoSlices(m) : TRUE)

\* the sources of a run: every repository configured and no other source, or
\* three repositories that the four sources name several times
SourceChoices ==
    {<<[j \in Workers |-> Repo(j)], <<>>, <<>>, <<>>>>,
     <<<<Repo(1), Repo(2)>>, <<Repo(2)>>, <<Repo(2), Repo(3), Repo(1)>>, <<Repo(3), Repo(3)>>>>}

InitRepos ==
    /\ disk = NoFile
    /\ states = NewStateStore(NoFile)
    /\ mu = 0
    /\ now = 0
    /\ ProcInit
    /\ GhostInit
    /\ NotifyIdle
    /\ \E srcs \in SourceChoices :
         /\ sources = srcs
         /\ repoConfigs \in SomeSlices(repoMap(srcs))
    /\ cfgDays = DefaultCheckDays
    /\ run = 0
    /\ dpc = "idle"
    /\ bi = 0
    /\ bj = 0
    /\ bend = 0
    /\ semaphore = 0
    /\ wg = 0
    /\ fetchMu = 0
    /\ results = <<>>
    /\ noReleaseCount = 0
    /\ errorCount = 0
    /\ rateLimitHit = FALSE
    /\ wpc = [j \in Workers |-> "none"]
    /\ wrel = [j \in Workers |-> NoAnswer]
    /\ wres = [j \in Workers |-> NoResult]
    /\ wdata = [j \in Workers |-> {}]
    /\ reported = [j \in Workers |-> 0]
    /\ undelivered = {}
    /\ LockIdle
    /\ out = NoReturn
    /\ added = {}

\* one call of CheckForNewReleases on repositories without a fresh release
NextRepos ==
    \/ FirstRun
    \/ D_Batch
    \/ D_Check
    \/ D_Dispatch
    \/ D_Wait
    \/ D_Finish
    \/ \E j \in Workers :
        \/ GLR_Fetch(j) /\ wpc'[j] = "cr_lock"
        \/ CR_Lock(j)
        \/ CR_Record(j)
        \/ CR_Done(j)
        \/ CR_Release(j)

SpecRepos == InitRepos /\ [][NextRepos]_vars

\* the repositories the sources name
Identities ==
    {sources[s][n] : <<s, n>> \in {sn \in (1..Len(sources)) \X Workers : sn[2] <= Len(sources[sn[1]])}}
\* the lookups started for a repository, and those that have completed
Started(x) == {j \in 1..Len(repoConfigs) : repoConfigs[j] = x /\ wpc[j] # "none"}
Finished(x) == {j \in 1..Len(repoConfigs) : repoConfigs[j] = x /\ Completed(j)}

\* C25: in a run that rateLimitHit does not halt, every repository that the
\* sources name, however often, is looked up exactly once: when the run
\* returns one lookup has completed for it, at no time two lookups were
\* started for it, and no lookup is started again.
C25_EachIdentityOnce ==
    /\ []((out.returned /\ ~rateLimitHit) =>
             \A x \in Identities : Cardinality(Finished(x)) = 1)
    /\ [](\A x \in Identities : Cardinality(Started(x)) <= 1)
    /\ [][\A j \in Workers : wpc[j] \notin {"none", "glr_fetch"} => wpc'[j] # "glr_fetch"]_vars

\* a run over repositories named by several sources has looked up all of them
C25_Witness ==
    /\ out.returned
    /\ ~rateLimitHit
    /\ Len(repoConfigs) < Len(sources[1]) + Len(sources[2]) + Len(sources[3]) + Len(sources[4])
    /\ \A x \in Identities : Cardinality(Finished(x)) = 1

\* ---------------------------------------------------------------------------
\* runOnce, one run after another as the scheduler makes them: each run calls
\* CheckForNewReleases and, when releases came back, NewManager and NotifyAll

\* runOnce calls github.CheckForNewReleases
R_Check ==
    /\ npc \in {"none", "r_done"}
    /\ NewRun
    /\ npc' = "r_check"
    /\ UNCHANGED lockVars
    /\ UNCHANGED <<clk, cfg, notifiers, nrel, net, tmplOK, mlim, nlim, cooldown, nmu, caller,
                   ni, nend, rel, chan, deadline, wake, errs, serr, dstat, limited, sentAt,
                   entered, lastCheck, lastSend, sends, elapses>>

\* CheckForNewReleases has returned: runOnce returns nil when the list is
\* empty and goes on to notifier.NewManager(cfg) otherwise.  The fields of the
\* manager and of its notifiers are new in every run.
R_Releases ==
    /\ npc = "r_check"
    /\ dpc = "idle"
    /\ out.returned
    /\ IF Len(out.results) = 0
       THEN /\ npc' = "r_done"
            /\ UNCHANGED <<notifiers, nrel, mlim, nlim, cooldown, ni, nend, rel, chan, deadline,
                           wake, errs, serr, dstat, limited, sentAt, entered, lastCheck, lastSend>>
       ELSE /\ npc' = "r_new"
            /\ notifiers' = <<>>
            /\ nrel' = Len(out.results)
            /\ mlim' = NewLimiter(managerPeriod, managerBurst, clk)
            /\ nlim' = [c \in Channels |-> NewLimiter(Period(c), Burst(c), clk)]
            /\ cooldown' = [c \in Channels |-> NoCooldown]
            /\ ni' = 0
            /\ nend' = 0
            /\ rel' = 0
            /\ chan' = 1
            /\ deadline' = 0
            /\ wake' = 0
            /\ errs' = <<>>
            /\ serr' = <<>>
            /\ dstat' = [r \in 1..Len(out.results) |-> [c \in Channels |-> "none"]]
            /\ limited' = {}
            /\ sentAt' = [c \in Channels |-> <<>>]
            /\ entered' = [c \in Channels |-> NoEntry]
            /\ lastCheck' = NoCheck
            /\ lastSend' = NoSend
    /\ UNCHANGED <<coreVars, clk, cfg, net, tmplOK, nmu, caller, sends, elapses>>

\* the lookup that found the release at position r of the returned list
FoundBy(r) ==
    CHOOSE j \in 1..Len(repoConfigs) :
        /\ repoConfigs[j].Owner = out.results[r].Owner
        /\ repoConfigs[j].Name = out.results[r].Repository

\* the releases of the run that no channel has taken
NotDelivered ==
    {FoundBy(r) : r \in {q \in 1..Len(out.results) :
                           \A c \in Channels : dstat[q][c] # "ok"}}

\* runOnce returns after NewManager has failed or NotifyAll has returned: the
\* errors are printed and turned into the error of the run; nothing is sent
\* again and the ledger is not touched
R_Return ==
    /\ npc \in {"r_failed", "n_done"}
    /\ npc' = "r_done"
    /\ undelivered' = undelivered \cup NotDelivered
    /\ UNCHANGED lockVars
    /\ UNCHANGED <<ledgerVars, procVars, ghostVars, cfgDays, sources, repoConfigs, run, dpc, bi, bj,
                   bend, semaphore, wg, fetchMu, results, noReleaseCount, errorCount,
                   rateLimitHit, reported, out, added, lookupVars>>
    /\ UNCHANGED <<clk, cfg, notifiers, nrel, net, tmplOK, mlim, nlim, cooldown, nmu, caller,
                   ni, nend, rel, chan, deadline, wake, errs, serr, dstat, limited, sentAt,
                   entered, lastCheck, lastSend, sends, elapses>>

\* two repositories are watched; DingTalk is enabled, Telegram is off or
\* enabled without its credentials; the webhook delivers or the request fails
OnceConfigs ==
    {[c \in Channels |-> IF c = "dingtalk" THEN "ok" ELSE t] : t \in {"off", "nocred"}}
PlainNet == [outcomes |-> {"ok", "posterr"}, latency |-> {0}]

InitOnce ==
    /\ disk = NoFile
    /\ states = NewStateStore(NoFile)
    /\ mu = 0
    /\ now = 0
    /\ ProcInit
    /\ GhostInit
    /\ cfgDays = DefaultCheckDays
    /\ sources = NoSources
    /\ repoConfigs = <<Repo(1), Repo(2)>>
    /\ run = 0
    /\ dpc = "idle"
    /\ bi = 0
    /\ bj = 0
    /\ bend = 0
    /\ semaphore = 0
    /\ wg = 0
    /\ fetchMu = 0
    /\ results = <<>>
    /\ noReleaseCount = 0
    /\ errorCount = 0
    /\ rateLimitHit = FALSE
    /\ wpc = [j \in Workers |-> "none"]
    /\ wrel = [j \in Workers |-> NoAnswer]
    /\ wres = [j \in Workers |-> NoResult]
    /\ wdata = [j \in Workers |-> {}]
    /\ reported = [j \in Workers |-> 0]
    /\ undelivered = {}
    /\ LockIdle
    /\ out = NoReturn
    /\ added = {}
    /\ \E c \in OnceConfigs :
         /\ cfg = c
         /\ notifiers = <<>>
         /\ npc = "none"
         /\ ManagerFields(0, PlainNet, TRUE, "manager")

\* the ledger file is written without failure, and the API answers with a
\* release one day old or with a server error; two releases are within the
\* burst of every limiter, so that no delivery waits for a token
NextOnce ==
    \/ R_Check
    \/ D_Batch
    \/ D_Check
    \/ D_Dispatch
    \/ D_Wait
    \/ D_Finish
    \/ \E j \in Workers :
        \/ GLR_Fetch(j) /\ wrel'[j] \in {[kind |-> "release", age |-> 1, err |-> <<>>],
                                         [kind |-> "error", age |-> 0, err |-> ServerError]}
        \/ GLR_IsNewRelease(j)
        \/ GLR_UpdateState(j)
        \/ GLR_SaveMarshal(j)
        \/ GLR_SaveWrite(j) /\ ~writeFailed'
        \/ CR_Lock(j)
        \/ CR_Record(j)
        \/ CR_Done(j)
        \/ CR_Release(j)
    \/ R_Releases
    \/ R_NewManager
    \/ N_Start
    \/ N_Batch
    \/ M_Wait
    \/ S_Lock
    \/ S_Check
    \/ S_Wait
    \/ S_Post
    \/ S_Return
    \/ N_After
    \/ R_Return

SpecOnce == InitOnce /\ [][NextOnce]_vars

\* C33: a release that a run has reported and that reached no channel (every
\* delivery failed, or the manager could not be made) is not reported by a
\* later run: the ledger holds it from the moment it was detected.
C33_UndeliveredNotReportedAgain ==
    [][\A j \in Workers : j \in undelivered => reported'[j] = reported[j]]_vars

\* ---------------------------------------------------------------------------
\* The locks of the three components: s.mu of the ledger, mu of
\* CheckForNewReleases, n.mu of a channel

\* a lookup is at a call of the ledger that takes s.mu
AtLedger(j) == wpc[j] \in {"glr_isnew", "glr_update", "glr_marshal"}

\* C31: no goroutine takes the ledger lock while it holds the orchestrator's
\* mutex or a channel's mutex, nor the other way round: the holder of mu is
\* recording its result and nowhere else, a channel's mutex is held only
\* inside canSendMessage while no lookup is at the ledger, the holder of
\* either can take the step that releases it, and while the ledger lock is
\* held the other two are free.
C31_NoNestedLocking ==
    /\ \A j \in Workers :
          fetchMu = j => /\ wpc[j] = "cr_record"
                         /\ mu = 0
                         /\ ENABLED CR_Record(j)
    /\ \A c \in Channels :
          nmu[c] = 1 => /\ npc = "s_locked"
                        /\ mu = 0
                        /\ fetchMu = 0
                        /\ \A j \in Workers : ~AtLedger(j)
                        /\ ENABLED S_Check
    /\ mu # 0 => (fetchMu = 0 /\ \A c \in Channels : nmu[c] = 0)

\* a lookup holds mu while another one is at the ledger
C31_Witness ==
    \E j, k \in Workers : fetchMu = j /\ AtLedger(k)

\* ---------------------------------------------------------------------------
\* FileLock (filelock.go): the lock RootCmd takes on ~/.notify/notify.lock
\* before it does anything else.  Every FileLock object is on that one path.

\* the errors of the methods, by what they say
errWouldBlock == "lock would block"
ErrOpen == "open lock file failed"
ErrRunning == "another instance is running"
ErrLock == "lock failed"
ErrUnlock == "unlock failed"
ErrClose == "close failed"

\* lockFile with a shared lock, which every open file is granted
lockFileShared(e) == e
\* lockFile(file, true): flock with LOCK_EX|LOCK_NB on the file just opened.
\* It fails at once with EWOULDBLOCK while another open file holds the lock;
\* else the lock is granted, unless the system call fails (e)
lockFile(e) == IF holders # {} THEN errWouldBlock ELSE e

\* fl.file != nil
IsLocked(o) == file[o] # "nil"

Called(o, m, result, e) == [obj |-> o, op |-> m, ok |-> result, err |-> e]

\* Lock: open the file, lockFile, fl.file = file, write the pid
FL_Lock(o) ==
    /\ lcalls < MaxLockCalls
    /\ lcalls' = lcalls + 1
    /\ \E opened \in BOOLEAN, e \in {"", ErrLock} :
         IF ~opened
         THEN /\ lastLock' = Called(o, "Lock", FALSE, ErrOpen)
              /\ UNCHANGED <<holders, file, refused>>
         ELSE IF lockFile(e) = errWouldBlock
         THEN /\ lastLock' = Called(o, "Lock", FALSE, ErrRunning)
              /\ refused' = refused \cup {<<o, h>> : h \in holders}
              /\ UNCHANGED <<holders, file>>
         ELSE IF lockFile(e) # ""
         THEN /\ lastLock' = Called(o, "Lock", FALSE, lockFile(e))
              /\ UNCHANGED <<holders, file, refused>>
         ELSE /\ holders' = holders \cup {o}
              /\ file' = [file EXCEPT ![o] = "open"]
              /\ lastLock' = Called(o, "Lock", TRUE, "")
              /\ UNCHANGED refused
    /\ UNCHANGED <<ledgerVars, procVars, ghostVars, fetchVars, notifyVars>>

\* TryLock: as Lock, but a lock that is taken gives (false, nil)
FL_TryLock(o) ==
    /\ lcalls < MaxLockCalls
    /\ lcalls' = lcalls + 1
    /\ \E opened \in BOOLEAN, e \in {"", ErrLock} :
         IF ~opened
         THEN /\ lastLock' = Called(o, "TryLock", FALSE, ErrOpen)
              /\ UNCHANGED <<holders, file, refused>>
         ELSE IF lockFile(e) = errWouldBlock
         THEN /\ lastLock' = Called(o, "TryLock", FALSE, "")
              /\ refused' = refused \cup {<<o, h>> : h \in holders}
              /\ UNCHANGED <<holders, file>>
         ELSE IF lockFile(e) # ""
         THEN /\ lastLock' = Called(o, "TryLock", FALSE, lockFile(e))
              /\ UNCHANGED <<holders, file, refused>>
         ELSE /\ holders' = holders \cup {o}
              /\ file' = [file EXCEPT ![o] = "open"]
              /\ lastLock' = Called(o, "TryLock", TRUE, "")
              /\ UNCHANGED refused
    /\ UNCHANGED <<ledgerVars, procVars, ghostVars, fetchVars, notifyVars>>

\* Unlock: nothing to do when fl.file is nil.  When unlockFile fails the file
\* is closed and the error returned, fl.file staying as it is; unlockFile
\* fails on a file that is closed already.  Else the file is closed, fl.file
\* set to nil and the error of Close returned.  Closing the file gives up the
\* lock it holds.
FL_Unlock(o) ==
    /\ lcalls < MaxLockCalls
    /\ lcalls' = lcalls + 1
    /\ UNCHANGED refused
    /\ IF file[o] = "nil"
       THEN /\ lastLock' = Called(o, "Unlock", TRUE, "")
            /\ UNCHANGED <<holders, file>>
       ELSE \E unlocked \in (IF file[o] = "open" THEN BOOLEAN ELSE {FALSE}), closed \in BOOLEAN :
              /\ holders' = holders \ {o}
              /\ IF ~unlocked
                 THEN /\ file' = [file EXCEPT ![o] = "closed"]
                      /\ lastLock' = Called(o, "Unlock", FALSE, ErrUnlock)
                 ELSE /\ file' = [file EXCEPT ![o] = "nil"]
                      /\ lastLock' = Called(o, "Unlock", closed, IF closed THEN "" ELSE ErrClose)
    /\ UNCHANGED <<ledgerVars, procVars, ghostVars, fetchVars, notifyVars>>

NextLock ==
    \E o \in FileLocks :
        \/ FL_Lock(o)
        \/ FL_TryLock(o)
        \/ FL_Unlock(o)

SpecLock == Init /\ [][NextLock]_vars

\* the step is a call of method m
Calls(m) == lcalls' = lcalls + 1 /\ lastLock'.op = m

C38_IsLockedTracksLock ==
    /\ [](\A o \in FileLocks : IsLocked(o) <=> o \in holders)
    /\ [][\A o \in FileLocks : (~IsLocked(o) /\ IsLocked(o)') =>
             lastLock' \in {Called(o, "Lock", TRUE, ""), Called(o, "TryLock", TRUE, "")}]_vars
    /\ [][((Calls("Lock") \/ Calls("TryLock")) /\ ~lastLock'.ok) => UNCHANGED <<holders, file>>]_vars
    /\ [][(Calls("Unlock") /\ ~IsLocked(lastLock'.obj))
             => (lastLock'.err = "" /\ UNCHANGED <<holders, file>>)]_vars
    /\ [][Calls("Unlock") => file'[lastLock'.obj] = "nil"]_vars

\* ---------------------------------------------------------------------------
\* The ledger, once more

\* C34: a CheckAndUpdateIfNew call that returns (false, nil) has changed
\* nothing: the map, with the record of its identity and all others, and the
\* ledger file are as the call found them.
C34_NotNewLeavesLedger ==
    (/\ pc[Main] \in {"cau_unlock", "cau_return"}
     /\ ret[Main] = [isNew |-> FALSE, err |-> FALSE]) =>
        /\ states = pre[Main].states
        /\ disk = pre[Main].disk

\* a call with a tag the ledger knows has returned, the ledger holding a
\* second identity and a file
C34_Witness ==
    /\ pc[Main] = "cau_return"
    /\ ret[Main] = [isNew |-> FALSE, err |-> FALSE]
    /\ Key(Main) \in DOMAIN states
    /\ states[Key(Main)].LatestTag = arg[Main].tag
    /\ Cardinality(DOMAIN states) = 2
    /\ disk.exists

\* goroutines call CheckAndUpdateIfNew at the same time, each with an identity
\* and a tag of its own, on a ledger that may hold a tag of the first identity
InitConc ==
    \E a \in [Procs -> Idents \X Tags], hasOld \in BOOLEAN :
      \E old \in IF hasOld THEN Tags ELSE {""} :
        LET m == IF hasOld
                 THEN MapSet(EmptyMap, getKey("a", "x"), ReleaseState("a", "x", old, 0))
                 ELSE EmptyMap
            d == IF hasOld THEN File(MarshalIndent(m).data) ELSE NoFile
        IN /\ states = m
           /\ disk = d
           /\ mu = 0
           /\ now = 0
           /\ pc = [p \in Procs |-> "cau_lock"]
           /\ arg = [p \in Procs |-> [owner |-> a[p][1].Owner, repo |-> a[p][1].Name,
                                      tag |-> a[p][2]]]
           /\ cur = [p \in Procs |-> NoCur]
           /\ data = [p \in Procs |-> {}]
           /\ ret = [p \in Procs |-> NoRet]
           /\ pre = [p \in Procs |-> [states |-> m, disk |-> d, ioFailed |-> FALSE]]
           /\ calls = NumProcs
           /\ reopens = 0
           /\ seq = SeqOff
           /\ committed = [k \in Keys |-> IF hasOld /\ k = getKey("a", "x") THEN old ELSE ""]
           /\ writeFailed = FALSE
           /\ FetchIdle
           /\ LockIdle
           /\ NotifyIdle

SpecConc == InitConc /\ [][NextAtomic]_vars

\* the tags a map holds, and those a ledger file holds
TagsOf(m) == [k \in DOMAIN m |-> m[k].LatestTag]
FileTags(d) == [exists |-> d.exists, tags |-> TagsOf(NewStateStore(d))]

\* CheckAndUpdateIfNew as one step on a ledger l = [m, d, res] of map, file
\* and results, for the call of goroutine p: a known tag gives false and
\* changes nothing, another tag is set in the map, the map is written to the
\* file unless the write of p failed, and the call gives true
Apply(l, p) ==
    IF Key(p) \in DOMAIN l.m /\ l.m[Key(p)] = arg[p].tag
    THEN [l EXCEPT !.res[p] = FALSE]
    ELSE LET m2 == [k \in (DOMAIN l.m) \cup {Key(p)} |->
                       IF k = Key(p) THEN arg[p].tag ELSE l.m[k]]
         IN [m |-> m2,
             d |-> IF pre[p].ioFailed THEN l.d ELSE [exists |-> TRUE, tags |-> m2],
             res |-> [l.res EXCEPT ![p] = TRUE]]

\* the calls made one after another in the order o
RECURSIVE Replay(_, _)
Replay(o, l) == IF o = <<>> THEN l ELSE Replay(Tail(o), Apply(l, Head(o)))

\* the orders in which the goroutines can be put
Orders == {o \in [1..NumProcs -> Procs] : \A i, j \in 1..NumProcs : o[i] = o[j] => i = j}

\* the ledger the calls found
Before(p) ==
    [m |-> TagsOf(pre[p].states), d |-> FileTags(pre[p].disk), res |-> [q \in Procs |-> FALSE]]

\* C35: concurrent CheckAndUpdateIfNew calls with any identities and tags are
\* linearizable: when all have returned, their results, the tags in the map
\* and the tags in the ledger file are those of the same calls made one after
\* another in some order, no call returned an error, and no step of a call
\* changes the record of an identity other than its own.
C35_Linearizable ==
    /\ []((\A p \in Procs : pc[p] = "cau_return") =>
             \E o \in Orders :
                LET l == Replay(o, Before(o[1]))
                IN /\ \A p \in Procs : ret[p].isNew = l.res[p] /\ ~ret[p].err
                   /\ TagsOf(states) = l.m
                   /\ FileTags(disk) = l.d)
    /\ [][\A p \in Procs : pc'[p] # pc[p] =>
             /\ DOMAIN states' \subseteq (DOMAIN states) \cup {Key(p)}
             /\ \A k \in (DOMAIN states) \ {Key(p)} :
                   k \in DOMAIN states' /\ states'[k] = states[k]]_vars

\* two calls with different tags for one identity and a ledger that held a
\* third have returned, both with true
C35_Witness ==
    /\ \A p \in Procs : pc[p] = "cau_return"
    /\ \E p, q \in Procs :
         /\ p # q
         /\ Key(p) = Key(q)
         /\ arg[p].tag # arg[q].tag
         /\ ret[p].isNew
         /\ ret[q].isNew
         /\ Key(p) \in DOMAIN pre[p].states
    /\ disk.exists

\* ---------------------------------------------------------------------------
\* The counters of CheckForNewReleases

\* the lookups checkRepo has recorded, and the sum of the three counters
Recorded == {j \in Workers : wpc[j] \in {"cr_done", "cr_release", "done"}}
Counted == Len(results) + noReleaseCount + errorCount

\* C36: every lookup is accounted for exactly once: the step of checkRepo
\* that records it adds one to exactly one of the list of new releases, the
\* count without a release and the count of errors, or raises rateLimitHit
\* for a rate-limit error and adds nothing; so the counters sum up to the
\* lookups recorded while rateLimitHit is down and to fewer once it is up.
\* When CheckForNewReleases returns every lookup started has been recorded,
\* and without a halt the counters sum up to the number of repositories.
C36_CounterAccounting ==
    /\ [][\A j \in Workers : (wpc[j] = "cr_record" /\ wpc'[j] = "cr_done") =>
            LET a == Len(results') - Len(results)
                b == noReleaseCount' - noReleaseCount
                c == errorCount' - errorCount
                s == IF Contains(wres[j].err, "rate limit exceeded") /\ rateLimitHit'
                     THEN 1 ELSE 0
            IN /\ {a, b, c} \subseteq {0, 1}
               /\ a + b + c + s = 1
               /\ s = 0 => rateLimitHit' = rateLimitHit]_vars
    /\ [](~rateLimitHit => Counted = Cardinality(Recorded))
    /\ [](rateLimitHit => Counted < Cardinality(Recorded))
    /\ [](out.returned => \A j \in Workers : wpc[j] # "none" => j \in Recorded)
    /\ []((out.returned /\ ~rateLimitHit) => Counted = Len(repoConfigs))

\* a run has returned with a lookup in each of the four places
C36_Witness ==
    /\ out.returned
    /\ rateLimitHit
    /\ Len(results) = 1
    /\ noReleaseCount = 1
    /\ errorCount = 1
    /\ Cardinality(Recorded) = 4

\* ---------------------------------------------------------------------------
\* The pool of lookup goroutines under the Go scheduler: a goroutine that can
\* run does run, and every API call returns

\* what the API answers in these runs: a fresh release, no release, or the
\* rate limit's error
DrainAnswers ==
    {[kind |-> "release", age |-> 1, err |-> <<>>],
     [kind |-> "notfound", age |-> 0, err |-> <<"404", "Not Found">>],
     [kind |-> "error", age |-> 0, err |-> RateLimitError]}

\* the steps of the lookup goroutine of repository j in a run
Lookup(j) ==
    \/ GLR_Fetch(j) /\ wrel'[j] \in DrainAnswers
    \/ GLR_IsNewRelease(j)
    \/ GLR_UpdateState(j)
    \/ GLR_SaveMarshal(j)
    \/ GLR_SaveWrite(j) /\ ~writeFailed'
    \/ CR_Lock(j)
    \/ CR_Record(j)
    \/ CR_Done(j)
    \/ CR_Release(j)

\* the steps of the goroutine that runs CheckForNewReleases
Loop == FirstRun \/ D_Batch \/ D_Check \/ D_Dispatch \/ D_Wait \/ D_Finish

NextDrain == Loop \/ \E j \in Workers : Lookup(j)

\* the repositories of these runs: more than the pool takes at once
DrainRepos == <<Repo(1), Repo(2), Repo(3)>>

InitDrain ==
    /\ disk = NoFile
    /\ states = NewStateStore(NoFile)
    /\ mu = 0
    /\ now = 0
    /\ ProcInit
    /\ GhostInit
    /\ cfgDays = DefaultCheckDays
    /\ sources = NoSources
    /\ repoConfigs = DrainRepos
    /\ run = 0
    /\ dpc = "idle"
    /\ bi = 0
    /\ bj = 0
    /\ bend = 0
    /\ semaphore = 0
    /\ wg = 0
    /\ fetchMu = 0
    /\ results = <<>>
    /\ noReleaseCount = 0
    /\ errorCount = 0
    /\ rateLimitHit = FALSE
    /\ wpc = [j \in Workers |-> "none"]
    /\ wrel = [j \in Workers |-> NoAnswer]
    /\ wres = [j \in Workers |-> NoResult]
    /\ wdata = [j \in Workers |-> {}]
    /\ reported = [j \in Workers |-> 0]
    /\ undelivered = {}
    /\ out = NoReturn
    /\ added = {}
    /\ LockIdle
    /\ NotifyIdle

SpecDrain ==
    /\ InitDrain
    /\ [][NextDrain]_vars
    /\ WF_vars(Loop)
    /\ \A j \in Workers : WF_vars(Lookup(j))

====
